---- MODULE Spec2Model ----
(***************************************************************************)
(* Cargill Virtual Line: the slot allocation engine of src/index.js.       *)
(*                                                                         *)
(* The store is the SQLite database: table time_slots (one row per         *)
(* (site_id, date, slot_time, is_workin)) and table slot_reservations      *)
(* (one row per AUTOINCREMENT id).  Every HTTP handler of index.js runs    *)
(* its store statements synchronously (better-sqlite3) before its first    *)
(* await, so under the single Node process one handler is one step.        *)
(* The clock is SQLite's CURRENT_TIMESTAMP, in whole seconds (UTC).        *)
(***************************************************************************)
EXTENDS Integers, Sequences, FiniteSets, TLC

VARIABLES
  slots,     \* time_slots: slot key -> row (ex = FALSE: no such row)
  resv,      \* slot_reservations: id -> row (ex = FALSE: no such row)
  nextRid,   \* next AUTOINCREMENT id of slot_reservations
  nextTok,   \* next fresh hold token (crypto.randomUUID never repeats)
  now,       \* CURRENT_TIMESTAMP, seconds
  last,      \* the latest request and its response
  trail,     \* history: the responses before it along a chain of related requests
  reqs,      \* requests served so far
  inflight   \* requests between two of their store statements (and answered racing holds)

vars == <<slots, resv, nextRid, nextTok, now, last, trail, reqs, inflight>>

-----------------------------------------------------------------------------
(* Bounds of the model *)

NumTimes == 2      \* slot times 07:00, 07:05, ...
MaxRes   == 2      \* reservations ever created
MaxTok   == 2      \* hold tokens ever issued
MaxReqs  == 5      \* requests served in one behaviour
NumCodes == 2      \* queue codes drawn from 1000 .. 999 + NumCodes
NumDetails == 2    \* distinct rider details
NumPhones == 1     \* distinct contact phones
MaxFlight == 2     \* hold requests whose SELECT and UPDATE are separate steps

(* Program constants *)

NULL     == 0      \* SQL NULL of an INTEGER / TEXT column
HoldTTL  == 120    \* datetime('now','+120 seconds')
OpenMin  == 7 * 60  \* 07:00, the first slot time of the model's day

\* the instants at which requests arrive: inside the TTL of a hold taken at 0,
\* at its expiry second, and after it
Instants == {0, HoldTTL \div 2, HoldTTL, HoldTTL + 1}

Sites   == {1}
Dates   == {1}
Workin  == {0, 1}
Codes   == 1000 .. (999 + NumCodes)
Details == 1 .. NumDetails          \* driver_name, license_plate, ... as one value
Phones  == 1 .. NumPhones           \* normalized +1XXXXXXXXXX numbers
PhoneArgs == Phones \cup {NULL}     \* a request may carry no (valid) phone
Rids    == 1 .. MaxRes
Toks    == 1 .. MaxTok

toMin(hhmm) == hhmm[1] * 60 + hhmm[2]

\* hhmmRe = /^(?:[01]\d|2[0-3]):[0-5]\d$/
ValidHHMM(hhmm) == hhmm[1] \in 0 .. 23 /\ hhmm[2] \in 0 .. 59
toHHMM(mins) == <<mins \div 60, mins % 60>>

minInt(site) == IF site = 2 THEN 6 ELSE 5

Times == { toHHMM(OpenMin + 5 * i) : i \in 0 .. (NumTimes - 1) }
NoTime == <<0, 0>>

SlotKeys == Sites \X Dates \X Times \X Workin

NoRow == [ex |-> FALSE, res |-> NULL, tok |-> NULL, exp |-> NULL, dis |-> 0]
NewRow(d) == [ex |-> TRUE, res |-> NULL, tok |-> NULL, exp |-> NULL, dis |-> d]

NoRes == [ex |-> FALSE, site |-> 0, date |-> 0, time |-> NoTime, code |-> 0,
          det |-> NULL, phone |-> NULL]

NoSlot == <<0, 0, NoTime>>

\* a request and its response: the arguments the properties refer to (arg), the HTTP
\* status, the fields of the JSON body the model keeps, and what the handler's last
\* sendSMS call returned to it (sms)
NoResp == [op |-> "none", st |-> 0, slot |-> NoSlot, rid |-> 0,
           tok |-> 0, exp |-> 0, code |-> 0, n |-> 0, ids |-> {}, times |-> {},
           arg |-> <<>>, items |-> <<>>, interval |-> 0, sms |-> "none"]

Resp(op, st, slot, rid, tok, exp, code) ==
  [op |-> op, st |-> st, slot |-> slot, rid |-> rid, tok |-> tok, exp |-> exp,
   code |-> code, n |-> 0, ids |-> {}, times |-> {}, arg |-> <<>>, items |-> <<>>,
   interval |-> 0, sms |-> "none"]

-----------------------------------------------------------------------------
(* Store queries *)

\* rows of time_slots WHERE site_id=? AND date=? AND slot_time=?
RowsAt(S, site, date, time) ==
  { k \in SlotKeys : S[k].ex /\ k[1] = site /\ k[2] = date /\ k[3] = time }

\* .get() of that query: the first row in the order of the UNIQUE index
\* (site_id, date, slot_time, is_workin), i.e. the least is_workin
FirstRow(S, site, date, time) ==
  CHOOSE k \in RowsAt(S, site, date, time) :
    \A j \in RowsAt(S, site, date, time) : k[4] <= j[4]

expireHolds(S, t) ==
  [k \in SlotKeys |->
     IF S[k].ex /\ S[k].exp # NULL /\ S[k].exp < t
       THEN [S[k] EXCEPT !.tok = NULL, !.exp = NULL]
       ELSE S[k]]

-----------------------------------------------------------------------------
Init ==
  /\ slots = [k \in SlotKeys |-> NoRow]
  /\ resv = [r \in Rids |-> NoRes]
  /\ nextRid = 1
  /\ nextTok = 1
  /\ now = 0
  /\ last = NoResp
  /\ trail = <<>>
  /\ reqs = 0
  /\ inflight = {}

\* one more request is served
Served == reqs < MaxReqs /\ reqs' = reqs + 1

\* the requests that edit a reservation's details
Edits == {"admin-update", "driver-update", "probe-edit"}

\* the request answered by `new` continues the one answered by `old`: it presents the
\* token or the reservation id that `old` returned, asks again for the slot that the
\* chain `tr` of earlier responses was about, or repeats it
Follows(new, old, tr) ==
  \/ old.op = "hold" /\ old.st = 200 /\ new.op = "confirm" /\ new.tok = old.tok
  \/ old.op = "hold" /\ old.st = 200 /\ new.op = "hold" /\ new.slot = old.slot
  \/ old.op = "confirm" /\ old.st = 201 /\ new.op = "cancel" /\ new.rid = old.rid
  \/ /\ old.op = "confirm" /\ old.st = 410 /\ new.op = "hold"
     /\ tr # <<>> /\ new.slot = tr[Len(tr)].slot
  \/ /\ old.op = "cancel" /\ old.st = 200 /\ new.op = "hold"
     /\ tr # <<>> /\ new.slot = old.slot
  \/ /\ old.op = "hold" /\ old.st = 200 /\ new.op = "publish" /\ new.st = 200
     /\ new.slot[1] = old.slot[1] /\ new.slot[2] = old.slot[2]
  \/ /\ old.op = "publish" /\ old.st = 200 /\ new.op = "confirm"
     /\ tr # <<>> /\ new.tok = tr[Len(tr)].tok
  \/ /\ old.op \in {"admin-reserve", "probe-create"} /\ old.st = 200
     /\ new.op \in Edits /\ new.rid = old.rid
  \/ /\ old.op \in Edits /\ old.st = 200 /\ tr # <<>>
     /\ new.op \in Edits \cup {"reassign"} /\ new.rid = old.rid
  \/ /\ old.op \in {"disable", "enable"} /\ tr = <<>>
     /\ new.op = old.op /\ new.slot = old.slot /\ new.times = old.times
  \/ old.op = "confirm" /\ old.st = 201 /\ new.op = "confirm" /\ new.tok = old.tok
  \/ /\ old.op = "hold" /\ old.st = 200 /\ new.op = "confirm"
     /\ tr # <<>> /\ tr[Len(tr)].op = "hold" /\ new.tok = tr[Len(tr)].tok
  \/ old.op = "publish" /\ old.st = 200 /\ new.op = "preview" /\ tr = <<>>

\* history variable: the chain grows while requests follow one another, and is
\* forgotten by any other request
Chain == trail' = IF Follows(last', last, trail) THEN Append(trail, last) ELSE <<>>

\* time passes
Tick ==
  /\ \E t \in Instants : t > now /\ now' = t
  /\ UNCHANGED <<slots, resv, nextRid, nextTok, last, trail, reqs, inflight>>

\* the hold handler without its check of an unexpired hold
HoldStatusNoHoldCheck(S, site, date, time, t) ==
  IF RowsAt(S, site, date, time) = {} THEN 404
  ELSE LET row == S[FirstRow(S, site, date, time)]
       IN IF row.dis # 0 THEN 409
          ELSE IF row.res # NULL THEN 409
          ELSE 200

\* the hold handler without its check of the disabled flag
HoldStatusNoDisabledCheck(S, site, date, time, t) ==
  IF RowsAt(S, site, date, time) = {} THEN 404
  ELSE LET row == S[FirstRow(S, site, date, time)]
       IN IF row.res # NULL THEN 409
          ELSE IF row.exp # NULL /\ row.exp > t THEN 409
          ELSE 200

\* POST /api/slots/hold: the checks between the SELECT and the UPDATE
HoldStatus(S, site, date, time, t) ==
  IF RowsAt(S, site, date, time) = {} THEN 404
  ELSE LET row == S[FirstRow(S, site, date, time)]
       IN IF row.dis # 0 THEN 409
          ELSE IF row.res # NULL THEN 409
          ELSE IF row.exp # NULL /\ row.exp > t THEN 409
          ELSE 200

\* a hold stamped with twice the time to live
StampHoldTwice(S, k, tok, t) == [S EXCEPT ![k].tok = tok, ![k].exp = t + 2 * HoldTTL]

\* UPDATE time_slots SET hold_token=?, hold_expires_at=now+120s WHERE id=?
StampHold(S, k, tok, t) == [S EXCEPT ![k].tok = tok, ![k].exp = t + HoldTTL]

\* POST /api/slots/hold
Hold(site, date, time) ==
  LET S == expireHolds(slots, now)
      slot == <<site, date, time>>
      st == HoldStatus(S, site, date, time, now)
  IN
  /\ IF st # 200
       THEN /\ slots' = S
            /\ last' = Resp("hold", st, slot, 0, 0, 0, 0)
            /\ UNCHANGED nextTok
       ELSE /\ nextTok <= MaxTok
            /\ slots' = StampHold(S, FirstRow(S, site, date, time), nextTok, now)
            /\ last' = Resp("hold", 200, slot, 0, nextTok, now + HoldTTL, 0)
            /\ nextTok' = nextTok + 1
  /\ UNCHANGED <<resv, nextRid, now, inflight>>
  /\ Served
  /\ Chain

\* the confirm handler's SELECT without its comparison of the expiry
HeldByAnyAge(S, tok, t) == { k \in SlotKeys : S[k].ex /\ S[k].tok = tok }

\* a SELECT that finds any row with an unexpired hold, whatever its token
HeldByAnyToken(S, tok, t) ==
  { k \in SlotKeys : S[k].ex /\ S[k].tok # NULL /\ S[k].exp # NULL /\ S[k].exp > t }

\* SELECT * FROM time_slots WHERE hold_token=? AND hold_expires_at > CURRENT_TIMESTAMP
HeldBy(S, tok, t) ==
  { k \in SlotKeys : S[k].ex /\ S[k].tok = tok /\ S[k].exp # NULL /\ S[k].exp > t }

\* INSERT INTO slot_reservations ... RETURNING id
InsertRes(R, id, site, date, time, code, det, phone) ==
  [R EXCEPT ![id] = [ex |-> TRUE, site |-> site, date |-> date, time |-> time,
                     code |-> code, det |-> det, phone |-> phone]]

\* the confirm handler's UPDATE without the clearing of the hold
ReserveRowKeepHold(S, k, id) == [S EXCEPT ![k].res = id]

\* UPDATE time_slots SET reserved_truck_id=?, hold_token=NULL, hold_expires_at=NULL WHERE id=?
ReserveRow(S, k, id) == [S EXCEPT ![k].res = id, ![k].tok = NULL, ![k].exp = NULL]

\* POST /api/slots/confirm
Confirm(tok, det, phone, code) ==
  LET S == expireHolds(slots, now)
      held == HeldBy(S, tok, now)
  IN
  /\ IF held = {}
       THEN /\ slots' = S
            /\ last' = Resp("confirm", 410, NoSlot, 0, tok, 0, 0)
            /\ UNCHANGED <<resv, nextRid>>
       ELSE LET k == CHOOSE x \in held : TRUE
            IN /\ nextRid <= MaxRes
               /\ resv' = InsertRes(resv, nextRid, k[1], k[2], k[3], code, det, phone)
               /\ slots' = ReserveRow(S, k, nextRid)
               /\ last' = Resp("confirm", 201, <<k[1], k[2], k[3]>>, nextRid, tok, 0, code)
               /\ nextRid' = nextRid + 1
  /\ UNCHANGED <<nextTok, now, inflight>>
  /\ Served
  /\ Chain

\* the cancel handler without its UPDATE of time_slots
FreeSlotNothing(S, site, date, time, id) == S

\* UPDATE time_slots SET reserved_truck_id=NULL
\*  WHERE site_id=? AND date=? AND slot_time=? AND reserved_truck_id=?
FreeSlot(S, site, date, time, id) ==
  [k \in SlotKeys |->
     IF S[k].ex /\ k[1] = site /\ k[2] = date /\ k[3] = time /\ S[k].res = id
       THEN [S[k] EXCEPT !.res = NULL]
       ELSE S[k]]

\* DELETE FROM slot_reservations WHERE id=?
DeleteRes(R, id) == [R EXCEPT ![id] = NoRes]

\* the cancel handler without its look-up of the reservation
CancelBlind(id) ==
  /\ resv' = DeleteRes(resv, id)
  /\ slots' = FreeSlot(slots, resv[id].site, resv[id].date, resv[id].time, id)
  /\ last' = Resp("cancel", 200, <<resv[id].site, resv[id].date, resv[id].time>>, id, 0, 0,
                  resv[id].code)
  /\ UNCHANGED <<nextRid, nextTok, now, inflight>>
  /\ Served
  /\ Chain

\* POST /api/slots/cancel
Cancel(id) ==
  /\ IF ~resv[id].ex
       THEN /\ last' = Resp("cancel", 404, NoSlot, id, 0, 0, 0)
            /\ UNCHANGED <<slots, resv>>
       ELSE LET r == resv[id]
            IN /\ resv' = DeleteRes(resv, id)
               /\ slots' = FreeSlot(slots, r.site, r.date, r.time, id)
               /\ last' = Resp("cancel", 200, <<r.site, r.date, r.time>>, id, 0, 0, r.code)
  /\ UNCHANGED <<nextRid, nextTok, now, inflight>>
  /\ Served
  /\ Chain

\* INSERT OR IGNORE INTO time_slots (site_id, date, slot_time, is_workin) VALUES (?,?,?,0)
EnsureSlot(S, site, date, time) ==
  IF S[<<site, date, time, 0>>].ex THEN S
  ELSE [S EXCEPT ![<<site, date, time, 0>>] = NewRow(0)]

\* the reassign handler without its check of the target
TargetReservedNever(S, tgt) == FALSE

\* if (tgt.reserved_truck_id) return 409
TargetReserved(S, tgt) == S[tgt].res # NULL

\* the transaction of POST /api/slots/reassign
MoveSlots(S, r, id, tgt) ==
  [FreeSlot(S, r.site, r.date, r.time, id) EXCEPT ![tgt].res = id]

\* POST /api/slots/reassign
Reassign(id, to) ==
  /\ IF ~resv[id].ex
       THEN /\ last' = Resp("reassign", 404, NoSlot, id, 0, 0, 0)
            /\ UNCHANGED <<slots, resv>>
       ELSE LET r == resv[id]
                S == EnsureSlot(slots, r.site, r.date, to)
                tgt == FirstRow(S, r.site, r.date, to)
            IN IF TargetReserved(S, tgt)
                 THEN /\ slots' = S
                      /\ last' = Resp("reassign", 409, <<r.site, r.date, to>>, id, 0, 0, 0)
                      /\ UNCHANGED resv
                 ELSE /\ slots' = MoveSlots(S, r, id, tgt)
                      /\ resv' = [resv EXCEPT ![id].time = to]
                      /\ last' = Resp("reassign", 200, <<r.site, r.date, to>>, id, 0, 0, r.code)
  /\ UNCHANGED <<nextRid, nextTok, now, inflight>>
  /\ Served
  /\ Chain

-----------------------------------------------------------------------------
(* Schedule generator *)

Max(a, b) == IF a >= b THEN a ELSE b

\* Math.round(a / b) for a >= 0, b > 0
Round(a, b) == (2 * a + b) \div (2 * b)

\* the interval without the site's floor
IntervalNoFloor(site, open, close, target, wantedInt) ==
  LET span == toMin(close) - toMin(open)
      computedInt == span \div Max(1, target - 1)
  IN Max(1, IF wantedInt > 0 THEN wantedInt ELSE computedInt)

\* interval = max(minInt, wantedInt > 0 ? wantedInt : floor(span / max(1, loads_target - 1)))
Interval(site, open, close, target, wantedInt) ==
  LET span == toMin(close) - toMin(open)
      computedInt == span \div Max(1, target - 1)
  IN Max(minInt(site), IF wantedInt > 0 THEN wantedInt ELSE computedInt)

\* for (i = 0; i < loads_target; i++) { t = start + i*interval; if (t >= start && t <= end) push }
RECURSIVE GenLoop(_, _, _, _, _, _)
GenLoop(i, target, start, end, interval, acc) ==
  IF i >= target THEN acc
  ELSE LET t == start + i * interval
       IN GenLoop(i + 1, target, start, end, interval,
                  IF t >= start /\ t <= end THEN Append(acc, toHHMM(t)) ELSE acc)

\* the loop without the test against the closing time
GenTimesNoEnd(site, open, close, target, wantedInt) ==
  [k \in 1 .. Max(0, target) |->
     toHHMM(toMin(open) + (k - 1) * Interval(site, open, close, target, wantedInt))]

GenTimes(site, open, close, target, wantedInt) ==
  GenLoop(0, target, toMin(open), toMin(close),
          Interval(site, open, close, target, wantedInt), <<>>)

\* for (i = stride - 1; i < times.length && size < want; i += stride) add(times[i])
RECURSIVE StrideLoop(_, _, _, _, _)
StrideLoop(i, stride, times, want, acc) ==
  IF i < Len(times) /\ Cardinality(acc) < want
    THEN StrideLoop(i + stride, stride, times, want, acc \cup {times[i + 1]})
    ELSE acc

\* for (i = times.length - 1; size < want && i >= 0; i--) if (!has(times[i])) add(times[i])
RECURSIVE BackFill(_, _, _, _)
BackFill(i, times, want, acc) ==
  IF Cardinality(acc) < want /\ i >= 0
    THEN BackFill(i - 1, times, want, acc \cup {times[i + 1]})
    ELSE acc

\* the stride pass alone
DisabledSetNoBackFill(times, want) ==
  IF want > 0 /\ Len(times) > 0
    THEN LET stride == Max(1, Round(Len(times), want))
         IN StrideLoop(stride - 1, stride, times, want, {})
    ELSE {}

DisabledSet(times, want) ==
  IF want > 0 /\ Len(times) > 0
    THEN LET stride == Max(1, Round(Len(times), want))
         IN BackFill(Len(times) - 1, times, want,
                     StrideLoop(stride - 1, stride, times, want, {}))
    ELSE {}

SeqRange(q) == { q[i] : i \in 1 .. Len(q) }

\* times.map(t => ({ slot_time: t, disabled: disabledSet.has(t) ? 1 : 0 }))
Items(times, dset) ==
  [i \in 1 .. Len(times) |-> <<times[i], IF times[i] \in dset THEN 1 ELSE 0>>]

\* POST /api/sites/:id/slots/preview, for a request q = <<site, open, close, loads_target,
\* disabled_loads, interval_min>> that has arrived: it reads nothing from the store
Preview(q) ==
  LET site == q.arg[1]
      open == q.arg[2]
      close == q.arg[3]
      target == q.arg[4]
      want == Max(0, q.arg[5])
      wantedInt == Max(0, q.arg[6])
  IN
  /\ q \in inflight
  /\ q.op = "preview"
  /\ inflight' = inflight \ {q}
  /\ IF target = 0 \/ ~(toMin(close) > toMin(open))
       THEN last' = [Resp("preview", 400, <<site, 0, NoTime>>, 0, 0, 0, 0)
                       EXCEPT !.arg = q.arg]
       ELSE LET times == GenTimes(site, open, close, target, wantedInt)
            IN last' = [Resp("preview", 200, <<site, 0, NoTime>>, 0, 0, 0, 0)
                          EXCEPT !.n = Interval(site, open, close, target, wantedInt),
                                 !.items = Items(times, DisabledSet(times, want)),
                                 !.arg = q.arg]
  /\ UNCHANGED <<slots, resv, nextRid, nextTok, now>>
  /\ Served
  /\ Chain

\* a field that the request body does not have
Absent == <<>>

\* a ?? b
Coalesce(a, b) == IF a = Absent THEN b ELSE a

\* Math.max(0, Number(x) || 0) of a field that is absent or holds the integer x[1]
Count(x) == IF x = Absent THEN 0 ELSE Max(0, x[1])

\* the preview handler's reading of a body: the number of disabled loads is
\* disabled_loads ?? disabled_slots
PreviewArgs(site, b) ==
  <<site, b.open_time, b.close_time, b.loads_target,
    Count(Coalesce(b.disabled_loads, b.disabled_slots)), b.interval_min>>

-----------------------------------------------------------------------------
(* Slot store *)

\* the publish transaction without its UPDATE that clears the holds
PublishRowsKeepHolds(S, site, date, times, dset) ==
  [k \in SlotKeys |->
     IF k[1] = site /\ k[2] = date
       THEN LET row == IF S[k].ex /\ S[k].res # NULL THEN S[k] ELSE NoRow
                d == IF k[3] \in dset THEN 1 ELSE 0
            IN IF k[4] = 0 /\ k[3] \in times
                 THEN IF row.ex THEN [row EXCEPT !.dis = d] ELSE NewRow(d)
                 ELSE row
       ELSE S[k]]

\* the transaction of POST /api/sites/:id/schedule
PublishRows(S, site, date, times, dset) ==
  [k \in SlotKeys |->
     IF k[1] = site /\ k[2] = date
       THEN LET kept == S[k].ex /\ S[k].res # NULL      \* survives the DELETE
                row == IF kept THEN [S[k] EXCEPT !.tok = NULL, !.exp = NULL] ELSE NoRow
                d == IF k[3] \in dset THEN 1 ELSE 0
            IN IF k[4] = 0 /\ k[3] \in times
                 THEN IF row.ex THEN [row EXCEPT !.dis = d] ELSE NewRow(d)
                 ELSE row
       ELSE S[k]]

\* POST /api/sites/:id/schedule
Publish(site, date, open, close, target, disabled_loads, wantedInt) ==
  /\ IF \/ ~ValidHHMM(open) \/ ~ValidHHMM(close)
        \/ target < 1
        \/ ~(toMin(close) > toMin(open))
       THEN /\ last' = [Resp("publish", 400, <<site, date, NoTime>>, 0, 0, 0, 0)
                          EXCEPT !.arg = <<open, close, target>>]
            /\ UNCHANGED slots
       ELSE LET times == GenTimes(site, open, close, target, wantedInt)
                dset == DisabledSet(times, disabled_loads)
            IN /\ slots' = PublishRows(slots, site, date, SeqRange(times), dset)
               /\ last' = [Resp("publish", 200, <<site, date, NoTime>>, 0, 0, 0, 0)
                             EXCEPT !.n = Len(times), !.times = dset,
                                    !.interval = Interval(site, open, close, target,
                                                          wantedInt),
                                    !.arg = <<open, close, target>>]
  /\ UNCHANGED <<resv, nextRid, nextTok, now, inflight>>
  /\ Served
  /\ Chain

\* POST /api/sites/:id/schedule on a body: the number of disabled loads is disabled_loads,
\* 0 when the body does not have it
PublishBody(site, date, b) ==
  Publish(site, date, b.open_time, b.close_time, b.loads_target,
          Count(b.disabled_loads), b.interval_min)

\* step of POST /api/slots/add-times (0: the request is rejected)
AddStep(site, start, end, target, wantedInt) ==
  IF wantedInt # 0 THEN Max(minInt(site), wantedInt)
  ELSE IF target < 1 THEN 0
  ELSE Max(minInt(site), Max(1, toMin(end) - toMin(start)) \div Max(1, target - 1))

\* for (t = s; t <= e; t += step) newTimes.push(toHHMM(t))
RECURSIVE AddLoop(_, _, _, _)
AddLoop(t, e, step, acc) ==
  IF t <= e THEN AddLoop(t + step, e, step, acc \cup {toHHMM(t)}) ELSE acc

\* INSERT OR REPLACE: the row at a generated time is written afresh
AddRowsReset(S, site, date, times, wk) ==
  [k \in SlotKeys |->
     IF k[1] = site /\ k[2] = date /\ k[3] \in times /\ k[4] = wk
       THEN NewRow(0)
       ELSE S[k]]

\* INSERT ... ON CONFLICT(site_id, date, slot_time, is_workin) DO UPDATE SET disabled = 0
AddRows(S, site, date, times, wk) ==
  [k \in SlotKeys |->
     IF k[1] = site /\ k[2] = date /\ k[3] \in times /\ k[4] = wk
       THEN IF S[k].ex THEN [S[k] EXCEPT !.dis = 0] ELSE NewRow(0)
       ELSE S[k]]

\* POST /api/slots/add-times
AddTimes(site, date, start, end, target, wantedInt, wk) ==
  LET step == AddStep(site, start, end, target, wantedInt)
  IN
  /\ IF \/ ~ValidHHMM(start) \/ ~ValidHHMM(end)
        \/ ~(toMin(end) >= toMin(start))
        \/ step = 0
       THEN /\ last' = [Resp("add-times", 400, <<site, date, NoTime>>, 0, 0, 0, 0)
                          EXCEPT !.arg = <<start, end, target, wantedInt, wk>>]
            /\ UNCHANGED slots
       ELSE LET times == AddLoop(toMin(start), toMin(end), step, {})
            IN /\ slots' = AddRows(slots, site, date, times, wk)
               /\ last' = [Resp("add-times", 200, <<site, date, NoTime>>, 0, 0, 0, 0)
                             EXCEPT !.n = Cardinality(times), !.times = times,
                                    !.arg = <<start, end, target, wantedInt, wk>>]
  /\ UNCHANGED <<resv, nextRid, nextTok, now, inflight>>
  /\ Served
  /\ Chain

\* a statement that also takes the listed rows from their reservations
FlagRowsFree(S, site, date, times, flag) ==
  [k \in SlotKeys |->
     IF S[k].ex /\ k[1] = site /\ k[2] = date /\ k[3] \in times
       THEN [S[k] EXCEPT !.dis = flag, !.res = NULL]
       ELSE S[k]]

\* a statement that flips the flag of the listed rows
FlagRowsToggle(S, site, date, times, flag) ==
  [k \in SlotKeys |->
     IF S[k].ex /\ k[1] = site /\ k[2] = date /\ k[3] \in times
       THEN [S[k] EXCEPT !.dis = 1 - S[k].dis]
       ELSE S[k]]

\* UPDATE time_slots SET disabled = ? WHERE site_id = ? AND date = ? AND slot_time IN (...)
FlagRows(S, site, date, times, flag) ==
  [k \in SlotKeys |->
     IF S[k].ex /\ k[1] = site /\ k[2] = date /\ k[3] \in times
       THEN [S[k] EXCEPT !.dis = flag]
       ELSE S[k]]

\* POST /api/slots/disable (flag = 1), POST /api/slots/enable (flag = 0)
SetDisabled(site, date, times, flag) ==
  /\ times # {}
  /\ slots' = FlagRows(slots, site, date, times, flag)
  /\ last' = [Resp(IF flag = 1 THEN "disable" ELSE "enable", 200, <<site, date, NoTime>>,
                   0, 0, 0, 0)
                EXCEPT !.n = Cardinality({k \in SlotKeys : slots[k].ex /\ k[1] = site
                                            /\ k[2] = date /\ k[3] \in times}),
                       !.times = times]
  /\ UNCHANGED <<resv, nextRid, nextTok, now, inflight>>
  /\ Served
  /\ Chain

\* rows of slot_reservations joined to a slot ON site_id, date, slot_time
ResAt(R, site, date, time) ==
  { r \in Rids : R[r].ex /\ R[r].site = site /\ R[r].date = date /\ R[r].time = time }

\* the SELECT of GET /api/sites/:id/slots
OpenTimes(S, R, site, date) ==
  { k[3] : k \in { x \in SlotKeys : /\ S[x].ex /\ x[1] = site /\ x[2] = date
                                    /\ S[x].dis = 0
                                    /\ ResAt(R, site, date, x[3]) = {}
                                    /\ S[x].tok = NULL } }

\* GET /api/sites/:id/slots
ListOpen(site, date) ==
  LET S == expireHolds(slots, now)
  IN
  /\ slots' = S
  /\ last' = [Resp("list", 200, <<site, date, NoTime>>, 0, 0, 0, 0)
                EXCEPT !.times = OpenTimes(S, resv, site, date)]
  /\ UNCHANGED <<resv, nextRid, nextTok, now, inflight>>
  /\ Served
  /\ Chain

-----------------------------------------------------------------------------
(* Administrative and self-service paths *)

\* UPDATE time_slots SET reserved_truck_id=? WHERE site_id=? AND date=? AND slot_time=?
PointRows(S, site, date, time, id) ==
  [k \in SlotKeys |->
     IF S[k].ex /\ k[1] = site /\ k[2] = date /\ k[3] = time
       THEN [S[k] EXCEPT !.res = id]
       ELSE S[k]]

\* an edit that also draws a new queue code
EditResNewCode(R, id, det, phone) ==
  [R EXCEPT ![id].det = det, ![id].phone = phone, ![id].code = 999 + NumCodes]

\* UPDATE slot_reservations SET driver_name=?, ..., driver_phone=? WHERE id=?
EditRes(R, id, det, phone) == [R EXCEPT ![id].det = det, ![id].phone = phone]

\* POST /api/slots/probe-upsert with a reservation_id: the edit path
ProbeEdit(site, date, time, id, det, phone) ==
  LET slot == <<site, date, time>>
  IN
  /\ IF RowsAt(slots, site, date, time) = {}
       THEN /\ last' = Resp("probe-edit", 404, slot, id, 0, 0, 0)
            /\ UNCHANGED <<slots, resv>>
       ELSE IF ~resv[id].ex
         THEN /\ last' = Resp("probe-edit", 500, slot, id, 0, 0, 0)
              /\ UNCHANGED <<slots, resv>>
         ELSE /\ resv' = EditRes(resv, id, det, phone)
              /\ slots' = PointRows(slots, site, date, time, id)
              /\ last' = Resp("probe-edit", 200, slot, id, 0, 0, resv[id].code)
  /\ UNCHANGED <<nextRid, nextTok, now, inflight>>
  /\ Served
  /\ Chain

\* POST /api/slots/probe-upsert without a reservation_id: the create path
ProbeCreate(site, date, time, det, phone, code) ==
  LET slot == <<site, date, time>>
  IN
  /\ IF RowsAt(slots, site, date, time) = {}
       THEN /\ last' = Resp("probe-create", 404, slot, 0, 0, 0, 0)
            /\ UNCHANGED <<slots, resv, nextRid>>
       ELSE LET k == FirstRow(slots, site, date, time)
            IN IF slots[k].res # NULL
                 THEN /\ last' = Resp("probe-create", 500, slot, 0, 0, 0, 0)
                      /\ UNCHANGED <<slots, resv, nextRid>>
                 ELSE /\ nextRid <= MaxRes
                      /\ resv' = InsertRes(resv, nextRid, site, date, time, code, det, phone)
                      /\ slots' = ReserveRow(slots, k, nextRid)
                      /\ last' = Resp("probe-create", 200, slot, nextRid, 0, 0, code)
                      /\ nextRid' = nextRid + 1
  /\ UNCHANGED <<nextTok, now, inflight>>
  /\ Served
  /\ Chain

\* POST /api/admin/reserve
AdminReserve(site, date, time, det, phone, code) ==
  /\ nextRid <= MaxRes
  /\ resv' = InsertRes(resv, nextRid, site, date, time, code, det, phone)
  /\ slots' = PointRows(slots, site, date, time, nextRid)
  /\ last' = Resp("admin-reserve", 200, <<site, date, time>>, nextRid, 0, 0, code)
  /\ nextRid' = nextRid + 1
  /\ UNCHANGED <<nextTok, now, inflight>>
  /\ Served
  /\ Chain

\* POST /api/admin/update-reservation
AdminUpdate(id, det, phone) ==
  /\ IF ~resv[id].ex
       THEN /\ last' = Resp("admin-update", 404, NoSlot, id, 0, 0, 0)
            /\ UNCHANGED resv
       ELSE /\ resv' = EditRes(resv, id, det, phone)
            /\ last' = Resp("admin-update", 200, NoSlot, id, 0, 0, 0)
  /\ UNCHANGED <<slots, nextRid, nextTok, now, inflight>>
  /\ Served
  /\ Chain

\* a gate that lets through a request with one matching factor
AuthorizedEither(row, phone, code) == row.phone = phone \/ row.code = code

\* (row.driver_phone || '') !== phoneNorm || (row.queue_code || '') !== String(probe_code),
\* negated
Authorized(row, phone, code) == row.phone = phone /\ row.code = code

\* POST /api/driver/manage/update from its SELECT on; phone is normPhone(phone) of the
\* request; det = NULL: the patch names no field
DriverUpdate(id, phone, code, det) ==
  LET resp(st) == [Resp("driver-update", st, NoSlot, id, 0, 0, 0)
                     EXCEPT !.arg = <<id, phone, code, det>>]
  IN
  /\ IF ~resv[id].ex
       THEN /\ last' = resp(404)
            /\ UNCHANGED resv
       ELSE IF ~Authorized(resv[id], phone, code)
         THEN /\ last' = resp(403)
              /\ UNCHANGED resv
         ELSE IF det = NULL
           THEN /\ last' = resp(200)
                /\ UNCHANGED resv
           ELSE /\ resv' = [resv EXCEPT ![id].det = det]
                /\ last' = [resp(200) EXCEPT !.n = 1]
  /\ UNCHANGED <<slots, nextRid, nextTok, now, inflight>>
  /\ Served
  /\ Chain

\* the reservation_ids loop of POST /api/slots/mass-cancel
RECURSIVE CancelAll(_, _)
CancelAll(S, ids) ==
  IF ids = {} THEN S
  ELSE LET id == CHOOSE x \in ids : TRUE
       IN CancelAll(FreeSlot(S, resv[id].site, resv[id].date, resv[id].time, id),
                    ids \ {id})

\* DELETE FROM time_slots WHERE site_id=? AND date=? AND slot_time=? AND reserved_truck_id IS NULL
DelOpen(S, site, date, times) ==
  [k \in SlotKeys |->
     IF S[k].ex /\ k[1] = site /\ k[2] = date /\ k[3] \in times /\ S[k].res = NULL
       THEN NoRow
       ELSE S[k]]

\* POST /api/slots/mass-cancel
MassCancel(site, date, ids, times) ==
  LET hit == { id \in ids : resv[id].ex }
      S == CancelAll(slots, hit)
      gone == { t \in times : \E k \in RowsAt(S, site, date, t) : S[k].res = NULL }
  IN
  /\ resv' = [r \in Rids |-> IF r \in hit THEN NoRes ELSE resv[r]]
  /\ slots' = DelOpen(S, site, date, times)
  /\ last' = [Resp("mass-cancel", 200, <<site, date, NoTime>>, 0, 0, 0, 0)
                EXCEPT !.n = Cardinality(hit), !.ids = hit, !.times = gone,
                       !.arg = <<ids, times>>]
  /\ UNCHANGED <<nextRid, nextTok, now, inflight>>
  /\ Served
  /\ Chain

-----------------------------------------------------------------------------
(* POST /api/slots/hold as the statements it sends to the store, one step each side of *)
(* the handler's checks, for processes that share the database file                     *)

\* expireHolds(), the SELECT and the checks; a request that passes them is in flight
HoldBegin(site, date, time) ==
  LET S == expireHolds(slots, now)
      slot == <<site, date, time>>
      st == HoldStatus(S, site, date, time, now)
  IN
  /\ slots' = S
  /\ IF st # 200
       THEN /\ last' = Resp("hold", st, slot, 0, 0, 0, 0)
            /\ UNCHANGED inflight
       ELSE /\ Cardinality(inflight) < MaxFlight
            /\ inflight' = inflight \cup
                 {[n |-> reqs + 1, key |-> FirstRow(S, site, date, time), tok |-> NULL]}
            /\ UNCHANGED last
  /\ UNCHANGED <<resv, nextRid, nextTok, now, trail>>
  /\ Served

\* the UPDATE ... WHERE id=? of a request in flight, and its response
HoldFinish(q) ==
  /\ q \in inflight /\ q.tok = NULL
  /\ nextTok <= MaxTok
  /\ slots' = IF slots[q.key].ex THEN StampHold(slots, q.key, nextTok, now) ELSE slots
  /\ last' = Resp("hold", 200, <<q.key[1], q.key[2], q.key[3]>>, 0, nextTok,
                  now + HoldTTL, 0)
  /\ inflight' = (inflight \ {q}) \cup {[q EXCEPT !.tok = nextTok]}
  /\ nextTok' = nextTok + 1
  /\ UNCHANGED <<resv, nextRid, now, trail, reqs>>

-----------------------------------------------------------------------------
(* POST /api/slots/cancel as the two statements it sends to the store, each one its own *)
(* implicit transaction, and a stop of the process between them                         *)

\* the SELECT and the DELETE FROM slot_reservations
CancelDelete(id) ==
  /\ IF ~resv[id].ex
       THEN /\ last' = Resp("cancel", 404, NoSlot, id, 0, 0, 0)
            /\ UNCHANGED <<resv, inflight>>
       ELSE /\ resv' = DeleteRes(resv, id)
            /\ inflight' = inflight \cup
                 {[n |-> reqs + 1, id |-> id, code |-> resv[id].code,
                   slot |-> <<resv[id].site, resv[id].date, resv[id].time>>]}
            /\ UNCHANGED last
  /\ UNCHANGED <<slots, nextRid, nextTok, now, trail>>
  /\ Served

\* the UPDATE time_slots of a cancel in flight, and its response
CancelFree(q) ==
  /\ q \in inflight
  /\ slots' = FreeSlot(slots, q.slot[1], q.slot[2], q.slot[3], q.id)
  /\ last' = Resp("cancel", 200, q.slot, q.id, 0, 0, q.code)
  /\ inflight' = inflight \ {q}
  /\ UNCHANGED <<resv, nextRid, nextTok, now, trail, reqs>>

\* the process stops (crash, kill, restart): the requests in flight are never resumed
Stop ==
  /\ inflight # {}
  /\ inflight' = {}
  /\ UNCHANGED <<slots, resv, nextRid, nextTok, now, last, trail, reqs>>

-----------------------------------------------------------------------------
(* POST /api/slots/confirm as the statements it sends to the store, each one its own    *)
(* implicit transaction: the SELECT by token, the INSERT of the reservation, the UPDATE *)
(* of the slot by the id of the row the SELECT returned                                 *)

\* expireHolds() and the SELECT; a request that finds its row is in flight. `live` says
\* that the row the SELECT returned is still in the table under the id it had.
ConfirmSelect(tok, det, code) ==
  LET S == expireHolds(slots, now)
      held == HeldBy(S, tok, now)
  IN
  /\ slots' = S
  /\ IF held = {}
       THEN /\ last' = Resp("confirm", 410, NoSlot, 0, tok, 0, 0)
            /\ UNCHANGED inflight
       ELSE /\ inflight = {}
            /\ inflight' = {[n |-> reqs + 1, key |-> CHOOSE x \in held : TRUE, tok |-> tok,
                             det |-> det, code |-> code, rid |-> NULL, live |-> TRUE]}
            /\ UNCHANGED last
  /\ UNCHANGED <<resv, nextRid, nextTok, now, trail>>
  /\ Served

\* the INSERT INTO slot_reservations of a confirm in flight
ConfirmInsert(q) ==
  /\ q \in inflight /\ q.rid = NULL
  /\ nextRid <= MaxRes
  /\ resv' = InsertRes(resv, nextRid, q.key[1], q.key[2], q.key[3], q.code, q.det, NULL)
  /\ inflight' = (inflight \ {q}) \cup {[q EXCEPT !.rid = nextRid]}
  /\ nextRid' = nextRid + 1
  /\ UNCHANGED <<slots, nextTok, now, last, trail, reqs>>

\* the UPDATE time_slots ... WHERE id=? of a confirm in flight, and its response
ConfirmPoint(q) ==
  /\ q \in inflight /\ q.rid # NULL
  /\ slots' = IF q.live /\ slots[q.key].ex THEN ReserveRow(slots, q.key, q.rid) ELSE slots
  /\ last' = Resp("confirm", 201, <<q.key[1], q.key[2], q.key[3]>>, q.rid, q.tok, 0, q.code)
  /\ inflight' = inflight \ {q}
  /\ UNCHANGED <<resv, nextRid, nextTok, now, trail, reqs>>

\* the rows the publish transaction deletes: DELETE ... WHERE reserved_truck_id IS NULL
Deleted(S, site, date) ==
  { k \in SlotKeys : k[1] = site /\ k[2] = date /\ S[k].ex /\ S[k].res = NULL }

\* the publish transaction of another request while confirms are in flight: a row it
\* deletes is gone for them, and a row it inserts at the same time has a new id
PublishAmid(site, date, close, target) ==
  LET times == GenTimes(site, toHHMM(OpenMin), close, target, 0)
      dset == DisabledSet(times, 0)
  IN
  /\ target >= 1 /\ toMin(close) > OpenMin
  /\ slots' = PublishRows(slots, site, date, SeqRange(times), dset)
  /\ inflight' = { [q EXCEPT !.live = q.live /\ q.key \notin Deleted(slots, site, date)] :
                   q \in inflight }
  /\ last' = [Resp("publish", 200, <<site, date, NoTime>>, 0, 0, 0, 0)
                EXCEPT !.n = Len(times), !.times = dset,
                       !.interval = Interval(site, toHHMM(OpenMin), close, target, 0),
                       !.arg = <<toHHMM(OpenMin), close, target>>]
  /\ UNCHANGED <<resv, nextRid, nextTok, now, trail>>
  /\ Served

-----------------------------------------------------------------------------
(* The handlers that notify, one step each side of `await sendSMS(...)`: the statements *)
(* before the await have run and committed, the request waits for the notifier          *)

\* what the provider does with a message: no client configured, create() resolves,
\* create() rejects
Deliveries == {"mock", "sent", "error"}

\* sendSMS without its try / catch
sendSMSRethrow(delivery) ==
  IF delivery = "sent" THEN "sent" ELSE IF delivery = "mock" THEN "mock" ELSE "throw"

\* sendSMS(to, body): { sent: false, mock: true }, { sent: true, sid }, or, from its catch,
\* { sent: false, error }
sendSMS(delivery) ==
  IF delivery = "sent" THEN "sent" ELSE IF delivery = "mock" THEN "mock" ELSE "failed"

\* the handler has built its response resp and has sends messages to send first, each
\* awaited; catch says where a rejection of the await would be caught: "send" (a try
\* around the call), "handler" (the handler's outer try) or "none"
ThenRespond(resp, catch, sends) ==
  IF sends = 0
    THEN /\ last' = resp
         /\ UNCHANGED inflight
    ELSE /\ Cardinality(inflight) < MaxFlight
         /\ inflight' = inflight \cup
              {[n |-> reqs + 1, op |-> resp.op, resp |-> resp, catch |-> catch,
                left |-> sends]}
         /\ UNCHANGED last

\* POST /api/slots/confirm up to `await sendSMS(...)`
ConfirmSend(tok, det, phone, code) ==
  LET S == expireHolds(slots, now)
      held == HeldBy(S, tok, now)
  IN
  /\ IF held = {}
       THEN /\ slots' = S
            /\ last' = Resp("confirm", 410, NoSlot, 0, tok, 0, 0)
            /\ UNCHANGED <<resv, nextRid, inflight>>
       ELSE LET k == CHOOSE x \in held : TRUE
            IN /\ nextRid <= MaxRes
               /\ resv' = InsertRes(resv, nextRid, k[1], k[2], k[3], code, det, phone)
               /\ slots' = ReserveRow(S, k, nextRid)
               /\ nextRid' = nextRid + 1
               /\ ThenRespond(Resp("confirm", 201, <<k[1], k[2], k[3]>>, nextRid, tok, 0, code),
                              "none", IF phone # NULL THEN 1 ELSE 0)
  /\ UNCHANGED <<nextTok, now, trail>>
  /\ Served

\* POST /api/admin/reserve up to `await sendSMS(...)`
AdminReserveSend(site, date, time, det, phone, code) ==
  /\ nextRid <= MaxRes
  /\ resv' = InsertRes(resv, nextRid, site, date, time, code, det, phone)
  /\ slots' = PointRows(slots, site, date, time, nextRid)
  /\ nextRid' = nextRid + 1
  /\ ThenRespond(Resp("admin-reserve", 200, <<site, date, time>>, nextRid, 0, 0, code),
                 "handler", IF phone # NULL THEN 1 ELSE 0)
  /\ UNCHANGED <<nextTok, now, trail>>
  /\ Served

\* POST /api/admin/update-reservation up to `await sendSMS(...)`
AdminUpdateSend(id, det, phone) ==
  /\ IF ~resv[id].ex
       THEN /\ last' = Resp("admin-update", 404, NoSlot, id, 0, 0, 0)
            /\ UNCHANGED <<resv, inflight>>
       ELSE /\ resv' = EditRes(resv, id, det, phone)
            /\ ThenRespond(Resp("admin-update", 200, NoSlot, id, 0, 0, 0),
                           "handler", IF phone # NULL THEN 1 ELSE 0)
  /\ UNCHANGED <<slots, nextRid, nextTok, now, trail>>
  /\ Served

\* POST /api/slots/mass-cancel up to the first `await sendSMS(...)` of its loop over phones
MassCancelSend(site, date, ids, times, notify) ==
  LET hit == { id \in ids : resv[id].ex }
      S == CancelAll(slots, hit)
      gone == { t \in times : \E k \in RowsAt(S, site, date, t) : S[k].res = NULL }
      phones == { id \in hit : notify /\ resv[id].phone # NULL }
  IN
  /\ resv' = [r \in Rids |-> IF r \in hit THEN NoRes ELSE resv[r]]
  /\ slots' = DelOpen(S, site, date, times)
  /\ ThenRespond([Resp("mass-cancel", 200, <<site, date, NoTime>>, 0, 0, 0, 0)
                    EXCEPT !.n = Cardinality(hit), !.ids = hit, !.times = gone,
                           !.arg = <<ids, times>>],
                 "send", Cardinality(phones))
  /\ UNCHANGED <<nextRid, nextTok, now, trail>>
  /\ Served

\* the awaited sendSMS of a waiting request settles and its handler goes on: to the next
\* send, to its response, or, had the await thrown, to whatever catches it
SendDone(q, delivery) ==
  LET sent == sendSMS(delivery)
  IN
  /\ q \in inflight
  /\ IF sent = "throw" /\ q.catch = "none"
       THEN /\ inflight' = inflight \ {q}
            /\ UNCHANGED last
       ELSE IF sent = "throw" /\ q.catch = "handler"
         THEN /\ inflight' = inflight \ {q}
              /\ last' = [Resp(q.op, 500, NoSlot, 0, 0, 0, 0) EXCEPT !.sms = sent]
         ELSE IF q.left > 1
           THEN /\ inflight' = (inflight \ {q}) \cup {[q EXCEPT !.left = q.left - 1]}
                /\ UNCHANGED last
           ELSE /\ inflight' = inflight \ {q}
                /\ last' = [q.resp EXCEPT !.sms = sent]
  /\ UNCHANGED <<slots, resv, nextRid, nextTok, now, trail, reqs>>

-----------------------------------------------------------------------------
(* Driver self-service look-up. Phones are strings, here sequences of one-character    *)
(* strings, and a reservation carries its created_at                                    *)

Digits == {"0", "1", "2", "3", "4", "5", "6", "7", "8", "9"}

IsDigit(c) == c \in Digits

\* /^\d{4}$/.test(text)
FourDigits(text) == Len(text) = 4 /\ \A i \in 1 .. 4 : text[i] \in Digits

\* null, where a phone string is expected
NoPhone == <<>>

\* normPhone(p): the digits of p as +1XXXXXXXXXX, or null; the third pattern of the source
\* asks for a '+' among the digits and matches nothing
normPhone(p) ==
  LET d == SelectSeq(p, IsDigit)
  IN IF Len(d) = 10 THEN <<"+", "1">> \o d
     ELSE IF Len(d) = 11 /\ d[1] = "1" THEN <<"+">> \o d
     ELSE NoPhone

\* substr(driver_phone, -4)
LastFour(phone) == SubSeq(phone, Len(phone) - 3, Len(phone))

\* POST /api/admin/reserve with the columns the look-up reads: driver_phone as stored,
\* normPhone(driver_phone) || null, and created_at DEFAULT CURRENT_TIMESTAMP
AdminReserveDated(site, date, time, det, phone, code) ==
  /\ nextRid <= MaxRes
  /\ resv' = [resv EXCEPT ![nextRid] =
                [ex |-> TRUE, site |-> site, date |-> date, time |-> time, code |-> code,
                 det |-> det, phone |-> normPhone(phone), at |-> now]]
  /\ slots' = PointRows(slots, site, date, time, nextRid)
  /\ last' = Resp("admin-reserve", 200, <<site, date, time>>, nextRid, 0, 0, code)
  /\ nextRid' = nextRid + 1
  /\ UNCHANGED <<nextTok, now, inflight>>
  /\ Served
  /\ Chain

\* WHERE driver_phone = ? AND queue_code = ?, or WHERE substr(driver_phone, -4) = ? AND ...
Matching(R, phoneRaw, probe) ==
  { r \in Rids :
      /\ R[r].ex /\ R[r].phone # NoPhone /\ R[r].code = probe
      /\ IF FourDigits(phoneRaw) THEN LastFour(R[r].phone) = phoneRaw
                                 ELSE R[r].phone = normPhone(phoneRaw) }

\* ORDER BY datetime(created_at) DESC LIMIT 1: the rows the statement may return, any of
\* those with the latest created_at (the order of rows with equal terms is undefined)
FirstByCreated(R, rows) == { r \in rows : \A o \in rows : R[r].at >= R[o].at }

\* POST /api/driver/manage/lookup
Lookup(phoneRaw, probe) ==
  /\ IF ~FourDigits(phoneRaw) /\ normPhone(phoneRaw) = NoPhone
       THEN last' = [Resp("lookup", 400, NoSlot, 0, 0, 0, 0) EXCEPT !.arg = <<phoneRaw, probe>>]
       ELSE IF Matching(resv, phoneRaw, probe) = {}
         THEN last' = [Resp("lookup", 404, NoSlot, 0, 0, 0, 0) EXCEPT !.arg = <<phoneRaw, probe>>]
         ELSE \E r \in FirstByCreated(resv, Matching(resv, phoneRaw, probe)) :
                last' = [Resp("lookup", 200, <<resv[r].site, resv[r].date, resv[r].time>>,
                              r, 0, 0, resv[r].code)
                           EXCEPT !.arg = <<phoneRaw, probe>>]
  /\ UNCHANGED <<slots, resv, nextRid, nextTok, now, inflight>>
  /\ Served
  /\ Chain

\* POST /api/driver/manage/update with the phone as typed: normPhone and the 400 of an
\* unusable phone, then the handler from its SELECT on
DriverManageUpdate(id, phoneRaw, code, det) ==
  IF normPhone(phoneRaw) = NoPhone
    THEN /\ last' = [Resp("driver-update", 400, NoSlot, id, 0, 0, 0)
                       EXCEPT !.arg = <<id, NoPhone, code, det>>]
         /\ UNCHANGED <<slots, resv, nextRid, nextTok, now, inflight>>
         /\ Served
         /\ Chain
    ELSE DriverUpdate(id, normPhone(phoneRaw), code, det)

-----------------------------------------------------------------------------
\* the details a request of the allocation engine carries when the claim is not about them
Det0 == CHOOSE d \in Details : \A e \in Details : d <= e

\* the queue code a direct reservation draws when the claim is not about it
Code0 == CHOOSE c \in Codes : \A e \in Codes : c <= e

Next ==
  \/ Tick
  \/ \E s \in Sites, d \in Dates, t \in Times : Hold(s, d, t)
  \/ \E tok \in Toks, c \in Codes : Confirm(tok, Det0, NULL, c)
  \/ \E id \in Rids : Cancel(id)
  \/ \E id \in Rids, t \in Times : Reassign(id, t)
  \/ \E s \in Sites, d \in Dates, c \in Times, n \in 1 .. NumTimes, dl \in 0 .. 1 :
        Publish(s, d, toHHMM(OpenMin), c, n, dl, 0)
  \/ \E s \in Sites, d \in Dates, a \in Times, b \in Times, w \in {0, 5} :
        AddTimes(s, d, a, b, 1 - (w \div 5), w, 0)
  \/ \E s \in Sites, d \in Dates, ts \in SUBSET Times, f \in {0, 1} : SetDisabled(s, d, ts, f)
  \/ \E s \in Sites, d \in Dates : ListOpen(s, d)
  \/ \E s \in Sites, d \in Dates, t \in Times, id \in Rids : ProbeEdit(s, d, t, id, Det0, NULL)
  \/ \E s \in Sites, d \in Dates, t \in Times : ProbeCreate(s, d, t, Det0, NULL, Code0)
  \/ \E s \in Sites, d \in Dates, t \in Times : AdminReserve(s, d, t, Det0, NULL, Code0)
  \/ \E s \in Sites, d \in Dates, ids \in SUBSET Rids, ts \in SUBSET Times :
        MassCancel(s, d, ids, ts)

Spec == Init /\ [][Next]_vars

\* the allocation engine over slots of both kinds
NextKinds ==
  \/ Tick
  \/ \E s \in Sites, d \in Dates, t \in Times : Hold(s, d, t)
  \/ \E tok \in Toks, c \in Codes : Confirm(tok, Det0, NULL, c)
  \/ \E id \in Rids : Cancel(id)
  \/ \E id \in Rids, t \in Times : Reassign(id, t)
  \/ \E s \in Sites, d \in Dates, a \in Times, wk \in Workin :
        AddTimes(s, d, a, a, 1, 0, wk)
  \/ \E s \in Sites, d \in Dates, t \in Times, f \in {0, 1} : SetDisabled(s, d, {t}, f)
  \/ \E s \in Sites, d \in Dates, t \in Times, c \in Codes : AdminReserve(s, d, t, Det0, NULL, c)

SpecKinds == Init /\ [][NextKinds]_vars

\* direct reservations and look-ups, with phones as the callers type them
PhoneA == <<"3", "1", "9", "5", "5", "5", "0", "1", "4", "2">>
PhoneB == <<"5", "1", "5", "5", "5", "5", "0", "1", "4", "2">>
TypedPhones ==
  { PhoneA,
    <<"1">> \o PhoneA,
    <<"(">> \o SubSeq(PhoneA, 1, 3) \o <<")", " ">> \o SubSeq(PhoneA, 4, 6) \o <<"-">>
      \o SubSeq(PhoneA, 7, 10),
    PhoneB,
    LastFour(PhoneA),
    SubSeq(PhoneA, 1, 7) }

NextLookup ==
  \/ Tick
  \/ \E s \in Sites, d \in Dates, t \in Times, ph \in TypedPhones, c \in Codes :
        AdminReserveDated(s, d, t, Det0, ph, c)
  \/ \E id \in Rids : Cancel(id)
  \/ \E ph \in TypedPhones, c \in Codes : Lookup(ph, c)

SpecLookup == Init /\ [][NextLookup]_vars

\* direct reservations and self-service updates, with phones as the callers type them
NextDriver ==
  \/ \E s \in Sites, d \in Dates, t \in Times, ph \in TypedPhones, c \in Codes :
        AdminReserveDated(s, d, t, Det0, ph, c)
  \/ \E id \in Rids : Cancel(id)
  \/ \E id \in Rids, ph \in TypedPhones, c \in Codes, det \in Details \cup {NULL} :
        DriverManageUpdate(id, ph, c, det)

SpecDriver == Init /\ [][NextDriver]_vars

\* requests that notify, the notifier slow enough for other requests to be served meanwhile
NextNotify ==
  \/ \E s \in Sites, d \in Dates, a \in Times : AddTimes(s, d, a, a, 1, 0, 0)
  \/ \E s \in Sites, d \in Dates, t \in Times : Hold(s, d, t)
  \/ \E tok \in Toks, ph \in PhoneArgs : ConfirmSend(tok, Det0, ph, Code0)
  \/ \E s \in Sites, d \in Dates, t \in Times, ph \in PhoneArgs :
        AdminReserveSend(s, d, t, Det0, ph, Code0)
  \/ \E id \in Rids, dt \in Details, ph \in PhoneArgs : AdminUpdateSend(id, dt, ph)
  \/ \E s \in Sites, d \in Dates, ids \in SUBSET Rids, nf \in BOOLEAN :
        MassCancelSend(s, d, ids, {}, nf)
  \/ \E q \in inflight, dl \in Deliveries : SendDone(q, dl)

SpecNotify == Init /\ [][NextNotify]_vars

\* the schedule generator over a range of arguments: one preview request has arrived
GenSites == {1, 2}
GenOpen == toHHMM(OpenMin)
GenCloses == { toHHMM(OpenMin + d) : d \in {0, 5, 20, 30, 120} }
GenTargets == {0, 1, 2, 3, 5, 7, 25}
GenDisabled == {0, 1, 2, 3, 4, 8}
GenIntervals == {0, 5, 10}
GenArgs == GenSites \X {GenOpen} \X GenCloses \X GenTargets \X GenDisabled \X GenIntervals

InitGen ==
  /\ slots = [k \in SlotKeys |-> NoRow]
  /\ resv = [r \in Rids |-> NoRes]
  /\ nextRid = 1
  /\ nextTok = 1
  /\ now = 0
  /\ last = NoResp
  /\ trail = <<>>
  /\ reqs = 0
  /\ \E a \in GenArgs : inflight = {[op |-> "preview", arg |-> a]}

NextGen == \E q \in inflight : Preview(q)

SpecGen == InitGen /\ [][NextGen]_vars

\* one request body sent to publish and then to preview, on an empty store
BodyTargets == {1, 2, 3, 5}
BodyLoads == {Absent, <<0>>, <<1>>, <<2>>, <<4>>}
BodySlots == {Absent, <<1>>, <<3>>}
BodyIntervals == {0, 10}
Bodies ==
  [open_time : {GenOpen}, close_time : GenCloses, loads_target : BodyTargets,
   disabled_loads : BodyLoads, disabled_slots : BodySlots, interval_min : BodyIntervals]

InitAgree ==
  /\ slots = [k \in SlotKeys |-> NoRow]
  /\ resv = [r \in Rids |-> NoRes]
  /\ nextRid = 1
  /\ nextTok = 1
  /\ now = 0
  /\ last = NoResp
  /\ trail = <<>>
  /\ reqs = 0
  /\ \E site \in GenSites, b \in Bodies :
       inflight = {[op |-> "preview", arg |-> PreviewArgs(site, b), site |-> site, body |-> b]}

NextAgree ==
  \/ \E q \in inflight, d \in Dates : last.op = "none" /\ PublishBody(q.site, d, q.body)
  \/ \E q \in inflight : Preview(q)

SpecAgree == InitAgree /\ [][NextAgree]_vars

\* hold requests of several processes at one instant, over rows that are never deleted
NextRace ==
  \/ \E s \in Sites, d \in Dates, a \in Times, b \in Times, wk \in Workin :
        AddTimes(s, d, a, b, 1, 5, wk)
  \/ \E s \in Sites, d \in Dates, t \in Times, f \in {0, 1} : SetDisabled(s, d, {t}, f)
  \/ \E s \in Sites, d \in Dates, t \in Times : HoldBegin(s, d, t)
  \/ \E q \in inflight : HoldFinish(q)

SpecRace == Init /\ [][NextRace]_vars

\* reservations, their edits and their moves
NextEdit ==
  \/ \E s \in Sites, d \in Dates, a \in Times, b \in Times :
        AddTimes(s, d, a, b, 1, 5, 0)
  \/ \E s \in Sites, d \in Dates, t \in Times, det \in Details, ph \in PhoneArgs, c \in Codes :
        AdminReserve(s, d, t, det, ph, c)
  \/ \E s \in Sites, d \in Dates, t \in Times, det \in Details, ph \in PhoneArgs, c \in Codes :
        ProbeCreate(s, d, t, det, ph, c)
  \/ \E s \in Sites, d \in Dates, t \in Times, id \in Rids, det \in Details, ph \in PhoneArgs :
        ProbeEdit(s, d, t, id, det, ph)
  \/ \E id \in Rids, det \in Details, ph \in PhoneArgs : AdminUpdate(id, det, ph)
  \/ \E id \in Rids, ph \in Phones, c \in Codes, det \in Details \cup {NULL} :
        DriverUpdate(id, ph, c, det)
  \/ \E id \in Rids, t \in Times : Reassign(id, t)

SpecEdit == Init /\ [][NextEdit]_vars

\* bookings made through the checked paths, cancels statement by statement, and stops;
\* one process: a handler's statements are not interleaved with another request
NextCrash ==
  \/ \E s \in Sites, d \in Dates, a \in Times, b \in Times :
        inflight = {} /\ AddTimes(s, d, a, b, 1, 5, 0)
  \/ \E s \in Sites, d \in Dates, t \in Times : inflight = {} /\ Hold(s, d, t)
  \/ \E tok \in Toks, c \in Codes : inflight = {} /\ Confirm(tok, Det0, NULL, c)
  \/ \E s \in Sites, d \in Dates, t \in Times :
        inflight = {} /\ ProbeCreate(s, d, t, Det0, NULL, Code0)
  \/ \E id \in Rids : inflight = {} /\ CancelDelete(id)
  \/ \E q \in inflight : CancelFree(q)
  \/ Stop

SpecCrash == Init /\ [][NextCrash]_vars

\* a confirm whose store statements interleave with the requests of other processes
NextAmid ==
  \/ Tick
  \/ \E s \in Sites, d \in Dates, a \in Times, b \in Times : AddTimes(s, d, a, b, 1, 5, 0)
  \/ \E s \in Sites, d \in Dates, t \in Times : Hold(s, d, t)
  \/ \E tok \in Toks, c \in Codes : ConfirmSelect(tok, Det0, c)
  \/ \E q \in inflight : ConfirmInsert(q)
  \/ \E q \in inflight : ConfirmPoint(q)
  \/ \E s \in Sites, d \in Dates, c \in Times, n \in 1 .. NumTimes : PublishAmid(s, d, c, n)
  \/ \E id \in Rids : Cancel(id)

SpecAmid == Init /\ [][NextAmid]_vars

\* confirms served one at a time by a process that can stop at any statement
NextHalt ==
  \/ Tick
  \/ \E s \in Sites, d \in Dates, a \in Times, b \in Times :
        inflight = {} /\ AddTimes(s, d, a, b, 1, 5, 0)
  \/ \E s \in Sites, d \in Dates, t \in Times : inflight = {} /\ Hold(s, d, t)
  \/ \E tok \in Toks, c \in Codes : ConfirmSelect(tok, Det0, c)
  \/ \E q \in inflight : ConfirmInsert(q)
  \/ \E q \in inflight : ConfirmPoint(q)
  \/ \E id \in Rids : inflight = {} /\ Cancel(id)
  \/ Stop

SpecHalt == Init /\ [][NextHalt]_vars

\* the drivers' paths and the listing over slots of both kinds: every booking goes
\* through hold and confirm
NextList ==
  \/ Tick
  \/ \E s \in Sites, d \in Dates, a \in Times, wk \in Workin : AddTimes(s, d, a, a, 1, 0, wk)
  \/ \E s \in Sites, d \in Dates, t \in Times, f \in {0, 1} : SetDisabled(s, d, {t}, f)
  \/ \E s \in Sites, d \in Dates, t \in Times : Hold(s, d, t)
  \/ \E tok \in Toks, c \in Codes : Confirm(tok, Det0, NULL, c)
  \/ \E id \in Rids : Cancel(id)
  \/ \E s \in Sites, d \in Dates : ListOpen(s, d)

SpecList == Init /\ [][NextList]_vars

\* times as a request may carry them: the day's times and one that is no HH:MM
TimeArgs == Times \cup {<<7, 60>>}

\* publish and append-times with arguments that pass or fail validation, over a day
\* that has holds and reservations
NextValid ==
  \/ \E s \in Sites, d \in Dates, o \in TimeArgs, c \in TimeArgs, n \in 0 .. NumTimes,
        dl \in 0 .. 1 :
        Publish(s, d, o, c, n, dl, 0)
  \/ \E s \in Sites, d \in Dates, a \in TimeArgs, b \in TimeArgs, n \in 0 .. 1, w \in {0, 5} :
        AddTimes(s, d, a, b, n, w, 0)
  \/ \E s \in Sites, d \in Dates, t \in Times : Hold(s, d, t)
  \/ \E s \in Sites, d \in Dates, t \in Times : ProbeCreate(s, d, t, Det0, NULL, Code0)

SpecValid == Init /\ [][NextValid]_vars

-----------------------------------------------------------------------------
(* Properties of the allocation engine *)

\* the step serves a request (Tick does not)
Request == reqs' = reqs + 1

\* the rows of every kind at a (site, date, time)
KeysOf(slot) == { k \in SlotKeys : <<k[1], k[2], k[3]>> = slot }

\* the response before the latest one, along the chain
Before(i) == trail[Len(trail) - i]

\* C1: whatever sequence of hold, confirm, direct reserve, reassign, cancel, mass cancel,
\* publish, append-times and disable/enable has been served, no two reservation records
\* name the same (site, date, time).
C1_OneReservationPerSlot ==
  \A a, b \in Rids :
    (resv[a].ex /\ resv[b].ex /\ a # b)
      => <<resv[a].site, resv[a].date, resv[a].time>>
           # <<resv[b].site, resv[b].date, resv[b].time>>

\* C2: a hold of slot s has just succeeded; the next request is a hold of the same slot,
\* served before the first hold's expiry: it is answered Conflict, gets no token, and the
\* first hold stays on the slot.
C2_SecondHoldConflicts ==
  [][ ( /\ Request
        /\ last.op = "hold" /\ last.st = 200
        /\ last'.op = "hold" /\ last'.slot = last.slot
        /\ now' < last.exp )
      => ( /\ last'.st = 409
           /\ last'.tok = NULL
           /\ \E k \in KeysOf(last.slot) :
                slots'[k].tok = last.tok /\ slots'[k].exp = last.exp ) ]_vars

C2_Witness ==
  /\ trail # <<>>
  /\ Before(0).op = "hold" /\ Before(0).st = 200
  /\ last.op = "hold" /\ last.st = 409 /\ last.slot = Before(0).slot
  /\ now < Before(0).exp
  /\ \E k \in KeysOf(last.slot) : slots[k].tok = Before(0).tok

\* the row refuses a hold at time t
Blocked(row, t) == row.dis # 0 \/ row.res # NULL \/ (row.exp # NULL /\ row.exp > t)

\* the status the claim gives a hold of `slot` in the current state
HoldAnswer(slot, st) ==
  LET rows == RowsAt(slots, slot[1], slot[2], slot[3])
  IN /\ rows = {} => st = 404
     /\ (rows # {} /\ Blocked(slots[FirstRow(slots, slot[1], slot[2], slot[3])], now))
          => st = 409

\* C4 as stated: a hold is answered NotFound when the slot has no row and Conflict when
\* it is disabled, reserved, or held and unexpired; a hold so refused leaves the slot's
\* hold token, hold expiry, reservation pointer and disabled flag as they were.
C4_RefusedHoldChangesNothing ==
  [][ (Request /\ last'.op = "hold")
      => ( /\ HoldAnswer(last'.slot, last'.st)
           /\ last'.st \in {404, 409}
                => \A k \in KeysOf(last'.slot) : slots'[k] = slots[k] ) ]_vars

\* C4 amended: the statuses are as stated; a refused hold leaves the slot's reservation
\* pointer and disabled flag as they were, and its hold token and expiry too unless the
\* hold had expired before the request, in which case the sweep that opens the handler
\* has cleared them.
C4_RefusedHoldOnlySweeps ==
  [][ (Request /\ last'.op = "hold")
      => ( /\ HoldAnswer(last'.slot, last'.st)
           /\ last'.st \in {404, 409}
                => \A k \in KeysOf(last'.slot) :
                     /\ slots'[k].ex = slots[k].ex
                     /\ slots'[k].res = slots[k].res
                     /\ slots'[k].dis = slots[k].dis
                     /\ IF slots[k].exp # NULL /\ slots[k].exp < now
                          THEN slots'[k].tok = NULL /\ slots'[k].exp = NULL
                          ELSE slots'[k].tok = slots[k].tok /\ slots'[k].exp = slots[k].exp
         ) ]_vars

\* a hold refused on a disabled slot whose earlier hold has run out
C4_Witness ==
  /\ last.op = "hold" /\ last.st = 409
  /\ nextTok > 1 /\ now > HoldTTL
  /\ \E k \in KeysOf(last.slot) :
       slots[k].ex /\ slots[k].dis = 1 /\ slots[k].res = NULL /\ slots[k].tok = NULL

\* C5: a hold has just succeeded and the next request confirms its token at or after the
\* hold's expiry: the answer is Gone and no reservation is created; and when the request
\* after that Gone is a hold of the same slot, it succeeds with a fresh token (no step of
\* the model sweeps holds in the background: time only passes in between).
C5_ExpiredHoldGoneThenFree ==
  [][ Request =>
      /\ ( /\ last.op = "hold" /\ last.st = 200
           /\ last'.op = "confirm" /\ last'.tok = last.tok
           /\ now >= last.exp )
         => (last'.st = 410 /\ resv' = resv /\ nextRid' = nextRid)
      /\ ( /\ trail # <<>>
           /\ Before(0).op = "hold" /\ Before(0).st = 200
           /\ last.op = "confirm" /\ last.st = 410 /\ last.tok = Before(0).tok
           /\ now >= Before(0).exp
           /\ last'.op = "hold" /\ last'.slot = Before(0).slot )
         => ( /\ last'.st = 200
              /\ last'.tok \notin {NULL, Before(0).tok}
              /\ \E k \in KeysOf(last'.slot) :
                   slots'[k].tok = last'.tok /\ slots'[k].exp = now + HoldTTL ) ]_vars

C5_Witness ==
  /\ Len(trail) >= 2
  /\ Before(1).op = "hold" /\ Before(1).st = 200
  /\ Before(0).op = "confirm" /\ Before(0).st = 410 /\ Before(0).tok = Before(1).tok
  /\ last.op = "hold" /\ last.st = 200 /\ last.slot = Before(1).slot
  /\ last.exp > Before(1).exp
  /\ \A r \in Rids : ~resv[r].ex

\* C6: a confirm answered Created has created exactly one reservation, with the site,
\* date and time of the slot that held the presented, unexpired token; that slot's hold
\* token and expiry are cleared and its pointer is the new id; the response carries that
\* id and the queue code stored in the record.
C6_ConfirmCreatesOne ==
  [][ (Request /\ last'.op = "confirm" /\ last'.st = 201) =>
      LET id == last'.rid
          held == { k \in SlotKeys : slots[k].ex /\ slots[k].tok = last'.tok }
      IN /\ id \in Rids /\ ~resv[id].ex /\ resv'[id].ex
         /\ \A r \in Rids \ {id} : resv'[r] = resv[r]
         /\ Cardinality(held) = 1
         /\ \A k \in held :
              /\ slots[k].exp > now
              /\ <<resv'[id].site, resv'[id].date, resv'[id].time>> = <<k[1], k[2], k[3]>>
              /\ slots'[k].tok = NULL /\ slots'[k].exp = NULL /\ slots'[k].res = id
         /\ last'.code = resv'[id].code ]_vars

C6_Witness ==
  /\ last.op = "confirm" /\ last.st = 201
  /\ resv[last.rid].ex /\ resv[last.rid].code = last.code
  /\ \E k \in KeysOf(last.slot) :
       slots[k].res = last.rid /\ slots[k].tok = NULL /\ slots[k].exp = NULL

\* C7: hold, confirm of that hold, cancel of that reservation, each answered with
\* success and served one after the other; a hold of the same slot served next succeeds.
C7_HoldAfterCancel ==
  [][ ( /\ Request
        /\ Len(trail) >= 2
        /\ Before(1).op = "hold" /\ Before(1).st = 200
        /\ Before(0).op = "confirm" /\ Before(0).st = 201 /\ Before(0).tok = Before(1).tok
        /\ last.op = "cancel" /\ last.st = 200 /\ last.rid = Before(0).rid
        /\ last'.op = "hold" /\ last'.slot = Before(1).slot )
      => ( /\ last'.st = 200
           /\ last'.tok \notin {NULL, Before(1).tok}
           /\ \E k \in KeysOf(last'.slot) : slots'[k].tok = last'.tok ) ]_vars

C7_Witness ==
  /\ Len(trail) >= 3
  /\ Before(2).op = "hold" /\ Before(2).st = 200
  /\ Before(1).op = "confirm" /\ Before(1).st = 201 /\ Before(1).tok = Before(2).tok
  /\ Before(0).op = "cancel" /\ Before(0).st = 200 /\ Before(0).rid = Before(1).rid
  /\ last.op = "hold" /\ last.st = 200 /\ last.slot = Before(2).slot

\* C3: of the hold requests of one slot that are in flight together, whatever the order
\* of their store steps, at most one is answered with a token.
C3_OneRacingHoldWins ==
  \A a, b \in inflight :
    (a.tok # NULL /\ b.tok # NULL /\ a.key = b.key) => a = b

\* C8: a reassign of an existing reservation to a time whose slot already carries a
\* reservation is answered Conflict, and the reservation's time, the old slot's pointer
\* and the target's pointer (the whole store) are as they were.
C8_ReassignConflict ==
  [][ ( /\ Request
        /\ last'.op = "reassign" /\ resv[last'.rid].ex
        /\ LET k == <<resv[last'.rid].site, resv[last'.rid].date, last'.slot[3], 0>>
           IN k \in SlotKeys /\ slots[k].ex /\ slots[k].res # NULL )
      => (last'.st = 409 /\ slots' = slots /\ resv' = resv) ]_vars

C8_Witness ==
  /\ last.op = "reassign" /\ last.st = 409
  /\ resv[last.rid].ex /\ resv[last.rid].time # last.slot[3]
  /\ \E k \in KeysOf(<<resv[last.rid].site, resv[last.rid].date, resv[last.rid].time>>) :
       slots[k].res = last.rid
  /\ slots[<<last.slot[1], last.slot[2], last.slot[3], 0>>].res \notin {NULL, last.rid}

\* C9: a reassign answered with success has, in its one step, set the reservation's time
\* to new_time and the target slot's pointer to the reservation's id, and left the old
\* slot's pointer null.
C9_ReassignMoves ==
  [][ (Request /\ last'.op = "reassign" /\ last'.st = 200) =>
      LET id == last'.rid
          to == last'.slot[3]
          old == <<resv[id].site, resv[id].date, resv[id].time>>
      IN /\ resv'[id].time = to
         /\ slots'[<<old[1], old[2], to, 0>>].res = id
         /\ to # old[3] => \A k \in KeysOf(old) : slots'[k].res = NULL ]_vars

\* C10: no request changes the queue code of a reservation that stays on record, so the
\* code is the one given at creation after any edits (admin update, self-service update,
\* probe-upsert edit) and reassigns; a reassign and a probe-upsert edit answer with it.
C10_QueueCodeFixed ==
  [][ Request =>
      /\ \A r \in Rids : (resv[r].ex /\ resv'[r].ex) => resv'[r].code = resv[r].code
      /\ (last'.op \in {"reassign", "probe-edit"} /\ last'.st = 200)
           => (last'.code = resv[last'.rid].code /\ last'.code = resv'[last'.rid].code)
      /\ (last'.op \in {"admin-reserve", "probe-create", "confirm"} /\ last'.st \in {200, 201})
           => last'.code = resv'[last'.rid].code ]_vars

\* a reservation created with a code, then edited, then reassigned, still has the code
C10_Witness ==
  /\ Len(trail) >= 2
  /\ Before(1).op \in {"admin-reserve", "probe-create"} /\ Before(1).st = 200
  /\ Before(0).op \in Edits /\ Before(0).st = 200 /\ Before(0).rid = Before(1).rid
  /\ last.op = "reassign" /\ last.st = 200 /\ last.rid = Before(1).rid
  /\ last.code = Before(1).code /\ resv[last.rid].code = Before(1).code
  /\ resv[last.rid].time = last.slot[3]

\* C11: a cancel whose reservation id matches no record is answered NotFound, and
\* every slot and every reservation is as it was.
C11_CancelUnknown ==
  [][ (Request /\ last'.op = "cancel" /\ ~resv[last'.rid].ex)
      => (last'.st = 404 /\ slots' = slots /\ resv' = resv) ]_vars

\* an unknown id refused while another reservation holds its slot
C11_Witness ==
  /\ last.op = "cancel" /\ last.st = 404 /\ ~resv[last.rid].ex
  /\ \E r \in Rids, k \in SlotKeys : resv[r].ex /\ slots[k].ex /\ slots[k].res = r

\* a slot's pointer names a reservation that is not on record
Dangling == \E k \in SlotKeys : slots[k].ex /\ slots[k].res # NULL /\ ~resv[slots[k].res].ex

\* a reservation on record whose slot has a null pointer
Orphan ==
  \E r \in Rids : /\ resv[r].ex
                  /\ \E k \in RowsAt(slots, resv[r].site, resv[r].date, resv[r].time) :
                       slots[k].res = NULL

\* C12: whenever no cancel is between its two writes (it finished, or the process
\* stopped and it never will), no slot points at a reservation that is gone and no
\* reservation on record has a slot with a null pointer.
C12_CancelAtomic == inflight = {} => (~Dangling /\ ~Orphan)

\* C13: a direct reserve (admin reserve, or probe-upsert without a reservation id) of
\* a slot that is disabled or already carries a reservation is answered Conflict,
\* creates no reservation and changes no slot.
C13_DirectReserveConflict ==
  [][ ( /\ Request
        /\ last'.op \in {"admin-reserve", "probe-create"}
        /\ RowsAt(slots, last'.slot[1], last'.slot[2], last'.slot[3]) # {}
        /\ LET row == slots[FirstRow(slots, last'.slot[1], last'.slot[2], last'.slot[3])]
           IN row.dis # 0 \/ row.res # NULL )
      => (last'.st = 409 /\ resv' = resv /\ slots' = slots) ]_vars

\* the slot row is open at time t: not disabled, null reservation pointer, and no hold
\* or a hold whose expiry has passed
Open(row, t) ==
  row.ex /\ row.dis = 0 /\ row.res = NULL /\ (row.tok = NULL \/ row.exp < t)

\* C14: the open-slot listing of a site/day returns exactly the times of its open slots:
\* none omitted, and no disabled, reserved or actively held slot included.
C14_ListOpenExact ==
  [][ (Request /\ last'.op = "list")
      => last'.times = { k[3] : k \in { x \in SlotKeys : /\ x[1] = last'.slot[1]
                                                          /\ x[2] = last'.slot[2]
                                                          /\ Open(slots[x], now) } } ]_vars

\* C15: a publish leaves every slot of the day that carries a reservation untouched
\* (the row stays, with the same reservation pointer and the same disabled flag) and
\* leaves every reservation record unchanged.
C15_PublishKeepsReserved ==
  [][ (Request /\ last'.op = "publish")
      => ( /\ resv' = resv
           /\ \A k \in SlotKeys :
                ( /\ k[1] = last'.slot[1] /\ k[2] = last'.slot[2]
                  /\ slots[k].ex /\ slots[k].res # NULL )
                => ( /\ slots'[k].ex
                     /\ slots'[k].res = slots[k].res
                     /\ slots'[k].dis = slots[k].dis ) ) ]_vars

\* the token is on no slot row
OffTheStore(S, tok) == \A k \in SlotKeys : ~(S[k].ex /\ S[k].tok = tok)

\* C16: a publish that completes leaves no slot of its site/day with a hold; a token
\* that is on no slot never comes back; and a confirm of a token that is on no slot is
\* answered Gone and creates no reservation. So every token issued for the day before
\* the publish is refused from then on.
C16_PublishVoidsHolds ==
  [][ Request =>
      /\ (last'.op = "publish" /\ last'.st = 200)
           => \A k \in SlotKeys :
                (k[1] = last'.slot[1] /\ k[2] = last'.slot[2])
                  => (slots'[k].tok = NULL /\ slots'[k].exp = NULL)
      /\ \A tok \in Toks :
           (tok < nextTok /\ OffTheStore(slots, tok)) => OffTheStore(slots', tok)
      /\ (last'.op = "confirm" /\ OffTheStore(slots, last'.tok))
           => (last'.st = 410 /\ resv' = resv /\ nextRid' = nextRid) ]_vars

\* a hold, a publish of its day, and the confirm of its token refused inside the TTL
C16_Witness ==
  /\ Len(trail) >= 2
  /\ Before(1).op = "hold" /\ Before(1).st = 200
  /\ Before(0).op = "publish" /\ Before(0).st = 200
  /\ last.op = "confirm" /\ last.st = 410 /\ last.tok = Before(1).tok
  /\ now < Before(1).exp
  /\ \A r \in Rids : ~resv[r].ex

\* the arguments <<open, close, loads_target>> break a constraint of the schedule
Invalid(open, close, target) ==
  \/ ~ValidHHMM(open) \/ ~ValidHHMM(close)
  \/ toMin(close) <= toMin(open)
  \/ target < 1

\* C17: a publish or an append-times whose arguments have an invalid time format,
\* close <= open, or loads_target < 1 is answered with a validation error and writes
\* nothing: slot rows, holds and reservations are as before the call.
C17_RejectsInvalid ==
  [][ ( /\ Request
        /\ last'.op \in {"publish", "add-times"}
        /\ Invalid(last'.arg[1], last'.arg[2], last'.arg[3]) )
      => (last'.st = 400 /\ slots' = slots /\ resv' = resv) ]_vars

\* the rows an accepted append-times wrote: the generated times, of the kind it was given
Appended(k) ==
  /\ last'.st = 200
  /\ k[1] = last'.slot[1] /\ k[2] = last'.slot[2]
  /\ k[3] \in last'.times
  /\ k[4] = last'.arg[5]

failed(resp) == {}

\* a mass-cancel step
MassCancelStep == Request /\ last'.op = "mass-cancel"

\* every row at the slot of reservation id (as it was before the step) has no reservation
\* pointer after the step
PointerCleared(id) ==
  \A k \in KeysOf(<<resv[id].site, resv[id].date, resv[id].time>>) :
    slots'[k].ex => slots'[k].res = NULL

\* C19: a mass-cancel of two ids, the first a live reservation and the second matching no
\* reservation, answers with the first listed as canceled and the second listed as failed,
\* and the first one's slot has its reservation pointer cleared afterwards.
C19_MassCancelReportsFailed ==
  [][ ( /\ MassCancelStep
        /\ last'.arg[2] = {} )
      => \A id1 \in last'.arg[1], id2 \in last'.arg[1] :
           (resv[id1].ex /\ ~resv[id2].ex /\ last'.arg[1] = {id1, id2})
             => /\ last'.st = 200
                /\ last'.ids = {id1}
                /\ failed(last') = {id2}
                /\ PointerCleared(id1) ]_vars

\* C20: the ids a mass-cancel reports as canceled are exactly the listed ids that were live
\* and exactly the reservations the call deleted; each of them has its slot's reservation
\* pointer cleared; no reservation outside the list is touched.
C20_MassCancelExact ==
  [][ MassCancelStep
      => /\ last'.ids = { id \in last'.arg[1] : resv[id].ex }
         /\ last'.ids = { r \in Rids : resv[r].ex /\ ~resv'[r].ex }
         /\ \A r \in Rids \ last'.arg[1] : resv'[r] = resv[r]
         /\ \A id \in last'.ids : PointerCleared(id) ]_vars

\* the times of a generated list, in minutes
ItemMin(resp, i) == toMin(resp.items[i][1])

\* a preview answered for arguments with close > open and loads_target >= 1
Generated(resp) ==
  /\ resp.op = "preview"
  /\ toMin(resp.arg[3]) > toMin(resp.arg[2])
  /\ resp.arg[4] >= 1

\* C21: for close > open and loads_target >= 1 the generated list has at most loads_target
\* times, every time lies in [open, close], consecutive times differ by exactly the
\* computed interval, and generating again from the same arguments gives the same list.
C21_GeneratedList ==
  Generated(last) =>
    /\ last.st = 200
    /\ Len(last.items) <= last.arg[4]
    /\ \A i \in 1 .. Len(last.items) :
         /\ ItemMin(last, i) >= toMin(last.arg[2])
         /\ ItemMin(last, i) <= toMin(last.arg[3])
    /\ \A i \in 1 .. (Len(last.items) - 1) : ItemMin(last, i + 1) - ItemMin(last, i) = last.n
    /\ [i \in 1 .. Len(last.items) |-> last.items[i][1]]
         = GenTimes(last.arg[1], last.arg[2], last.arg[3], last.arg[4], Max(0, last.arg[6]))

\* a list cut short by the closing time: fewer times than loads_target, more than one
C21_Witness ==
  /\ Generated(last)
  /\ Len(last.items) > 1
  /\ Len(last.items) < last.arg[4]
  /\ ItemMin(last, Len(last.items)) + last.n > toMin(last.arg[3])

\* floor((close - open) / max(1, target - 1)), from the arguments of a request
EvenSplit(arg) ==
  (toMin(arg[3]) - toMin(arg[2])) \div (IF arg[4] - 1 >= 1 THEN arg[4] - 1 ELSE 1)

\* the request of the scenario: site 1, open 07:00, close 09:00, loads_target 25 and no
\* requested interval
Scenario25(resp) ==
  /\ resp.op = "preview"
  /\ resp.arg[1] = 1 /\ resp.arg[2] = <<7, 0>> /\ resp.arg[3] = <<9, 0>>
  /\ resp.arg[4] = 25 /\ resp.arg[6] = 0

\* C22: the computed interval is the largest of the site minimum (5 for site 1, 6 for
\* site 2) and the requested interval when positive, else floor((close - open) /
\* max(1, target - 1)); site 1, 07:00 to 09:00 with target 25 gives interval 5 and exactly
\* the 25 times 07:00, 07:05, ..., 09:00.
C22_IntervalFormula ==
  /\ (last.op = "preview" /\ last.st = 200) =>
       LET floorMin == IF last.arg[1] = 1 THEN 5 ELSE 6
           asked == IF last.arg[6] > 0 THEN last.arg[6] ELSE EvenSplit(last.arg)
       IN /\ last.n >= floorMin
          /\ last.n >= asked
          /\ last.n \in {floorMin, asked}
  /\ Scenario25(last) =>
       /\ last.st = 200
       /\ last.n = 5
       /\ Len(last.items) = 25
       /\ \A i \in 1 .. 25 :
            last.items[i][1] = <<7 + (5 * (i - 1)) \div 60, (5 * (i - 1)) % 60>>

\* the scenario's request has been answered
C22_Witness == Scenario25(last) /\ last.st = 200 /\ last.items[25][1] = <<9, 0>>

\* positions of a generated list that are marked disabled
Marked(resp) == { i \in 1 .. Len(resp.items) : resp.items[i][2] = 1 }

\* positions stride, 2 * stride, ... of a list of count times, at most want of them, with
\* stride = max(1, round(count / want))
StridePicked(count, want) ==
  LET r == (2 * count + want) \div (2 * want)
      stride == IF r >= 1 THEN r ELSE 1
  IN { k * stride : k \in { j \in 1 .. want : j * stride <= count } }

\* C23: with N >= 1 disabled slots requested out of count generated times, exactly
\* min(N, count) generated times are marked disabled: every stride-th time with
\* stride = max(1, round(count / N)), and the rest taken from the end of the list; with
\* N = 0 none is marked.
C23_DisabledSpread ==
  (last.op = "preview" /\ last.st = 200) =>
    LET N == last.arg[5]
        count == Len(last.items)
    IN IF N = 0 \/ count = 0
         THEN Marked(last) = {}
         ELSE /\ Cardinality(Marked(last)) = (IF N <= count THEN N ELSE count)
              /\ StridePicked(count, N) \subseteq Marked(last)
              /\ \A j \in Marked(last) \ StridePicked(count, N) :
                   \A i \in (1 .. count) \ Marked(last) : i < j

\* the stride pass fell short and the list was back-filled from its end, with times left
\* enabled
C23_Witness ==
  /\ last.op = "preview" /\ last.st = 200
  /\ last.arg[5] >= 1
  /\ Marked(last) \ StridePicked(Len(last.items), last.arg[5]) # {}
  /\ Cardinality(Marked(last)) < Len(last.items)

\* the waiting request q is finished by this step: none of its sends is outstanding after it
Finished(q) == q \in inflight /\ \A p \in inflight' : p.n # q.n

\* C24: when the notifier fails to deliver or errors during confirm, direct reserve, edit
\* or mass-cancel, the operation still returns its success result, and reservations and
\* slots are exactly as the handler left them before the send: nothing is rolled back,
\* and the result is the one a successful delivery gives.
C24_NotifierFailureHarmless ==
  [][ (reqs' = reqs /\ inflight' # inflight)
      => /\ slots' = slots
         /\ resv' = resv
         /\ \A q \in inflight :
              Finished(q) => /\ last'.st \in {200, 201}
                             /\ [last' EXCEPT !.sms = "none"] = q.resp ]_vars

\* a confirm whose message the provider rejected has answered 201 and its reservation
\* stands, on a slot that points at it
C24_Witness ==
  /\ last.op = "confirm" /\ last.st = 201 /\ last.sms = "failed"
  /\ resv[last.rid].ex
  /\ \E k \in KeysOf(last.slot) : slots[k].ex /\ slots[k].res = last.rid

\* C25: the response of a confirm or a direct reserve is returned without waiting for the
\* notifier: it is never the completion of the send that lets the response out.
C25_ResponseNotBehindSend ==
  [][ \A q \in inflight :
        (q.op \in {"confirm", "admin-reserve"} /\ Finished(q)) => last' = last ]_vars

\* C26: a look-up returns a reservation only if its queue code is the code given and its
\* phone is the normalized full phone given (or, four digits given, ends in them); of
\* several matching reservations it returns the one created last, and with a well-formed
\* phone and no match it answers NotFound.
C26_LookupMostRecent ==
  [][ (Request /\ last'.op = "lookup")
      => LET phoneRaw == last'.arg[1]
             probe == last'.arg[2]
             match == Matching(resv, phoneRaw, probe)
         IN /\ last'.st = 200 =>
                 /\ last'.rid \in match
                 /\ resv[last'.rid].code = probe
                 /\ \A o \in match : o <= last'.rid
            /\ (match = {} /\ (FourDigits(phoneRaw) \/ normPhone(phoneRaw) # NoPhone))
                 => last'.st = 404
            /\ match # {} => last'.st = 200
            /\ slots' = slots /\ resv' = resv ]_vars

\* C27: a self-service update changes a reservation only when the supplied phone,
\* normalized, and the supplied queue code both are those of that reservation; when either
\* differs the request is rejected and the reservation is as before.
C27_BothFactors ==
  [][ (Request /\ last'.op = "driver-update")
      => LET id == last'.arg[1]
             both == /\ resv[id].ex
                     /\ last'.arg[2] # NoPhone
                     /\ resv[id].phone = last'.arg[2]
                     /\ resv[id].code = last'.arg[3]
         IN /\ resv' # resv => both
            /\ ~both => (last'.st \in {400, 403, 404} /\ resv' = resv)
            /\ \A r \in Rids \ {id} : resv'[r] = resv[r] ]_vars

\* an update let through while another reservation carries the same code under another
\* phone
C27_Witness ==
  /\ last.op = "driver-update" /\ last.st = 200 /\ last.n = 1
  /\ resv[last.rid].det = last.arg[4]
  /\ \E o \in Rids \ {last.rid} :
       resv[o].ex /\ resv[o].code = last.arg[3] /\ resv[o].phone # last.arg[2]

\* C28: an edit (admin update, self-service update, probe-upsert edit) changes only detail
\* fields of its reservation: the queue code and the site, date and time of every
\* reservation are as before, no other reservation changes, and no slot's reservation
\* pointer or hold changes.
C28_EditTouchesDetailsOnly ==
  [][ (Request /\ last'.op \in Edits)
      => /\ \A r \in Rids :
              /\ resv'[r].ex = resv[r].ex
              /\ resv'[r].code = resv[r].code
              /\ resv'[r].site = resv[r].site
              /\ resv'[r].date = resv[r].date
              /\ resv'[r].time = resv[r].time
              /\ r # last'.rid => resv'[r] = resv[r]
         /\ \A k \in SlotKeys :
              /\ slots'[k].res = slots[k].res
              /\ slots'[k].tok = slots[k].tok
              /\ slots'[k].exp = slots[k].exp ]_vars

\* no row of time_slots at the slot, before the step
NoRowAt(slot) == \A k \in KeysOf(slot) : ~slots[k].ex

\* a row at the slot points at a reservation, before the step
ReservedAt(slot) == \E k \in KeysOf(slot) : slots[k].ex /\ slots[k].res # NULL

\* the request answered by this step met a not-found, conflict or gone condition
ConditionMet ==
  LET slot == last'.slot
      id == last'.rid
  IN \/ /\ last'.op \in {"hold", "probe-create", "admin-reserve"}
        /\ NoRowAt(slot) \/ ReservedAt(slot)
     \/ /\ last'.op = "confirm"
        /\ \A k \in SlotKeys : ~(slots[k].ex /\ slots[k].tok = last'.tok /\ slots[k].exp > now)
     \/ /\ last'.op = "probe-edit"
        /\ NoRowAt(slot) \/ ~resv[id].ex
     \/ /\ last'.op \in {"cancel", "reassign", "admin-update", "driver-update"}
        /\ ~resv[id].ex
     \/ /\ last'.op = "reassign"
        /\ resv[id].ex /\ ReservedAt(slot)

\* C29: every not-found, conflict or gone condition met by hold, confirm, direct reserve,
\* edit, cancel and reassign is answered with its typed error (404, 409 or 410), never
\* with a generic server failure and never with success.
C29_TypedErrors ==
  [][ (Request /\ ConditionMet) => last'.st \in {404, 409, 410} ]_vars

\* a disable or an enable, and the rows at the times it lists, before the step
FlagStep == Request /\ last'.op \in {"disable", "enable"}

Listed(k) == k[1] = last'.slot[1] /\ k[2] = last'.slot[2] /\ k[3] \in last'.times

\* C30: setDisabled is idempotent, the same request applied again leaves the state of the
\* first application, and for listed times without a slot row it creates nothing and
\* changes nothing.
C30_SetDisabledIdempotent ==
  [][ FlagStep
      => /\ ( /\ last.op = last'.op
              /\ last.slot = last'.slot
              /\ last.times = last'.times ) => (slots' = slots /\ last'.n = last.n)
         /\ resv' = resv
         /\ \A k \in SlotKeys :
              /\ slots'[k].ex = slots[k].ex
              /\ (~Listed(k) \/ ~slots[k].ex) => slots'[k] = slots[k]
              /\ (Listed(k) /\ slots[k].ex)
                   => slots'[k] = [slots[k] EXCEPT !.dis = IF last'.op = "disable" THEN 1 ELSE 0]
         /\ (\A k \in SlotKeys : Listed(k) => ~slots[k].ex)
              => (slots' = slots /\ last'.n = 0) ]_vars

\* a disable was applied twice in a row to a time with a reserved row and a time with no
\* row
C30_Witness ==
  /\ Len(trail) = 1
  /\ last.op = "disable" /\ trail[1].op = "disable" /\ trail[1].times = last.times
  /\ \E k \in SlotKeys :
       k[3] \in last.times /\ slots[k].ex /\ slots[k].res # NULL /\ slots[k].dis = 1
  /\ \E t \in last.times : \A k \in SlotKeys : k[3] = t => ~slots[k].ex

\* C31: a change of the disabled flag (disable, enable, or publish and append-times
\* rewriting it) deletes and alters no reservation record and leaves every slot's
\* reservation pointer as it was.
C31_FlagKeepsReservations ==
  [][ (Request /\ last'.op \in {"disable", "enable", "publish", "add-times"})
      => /\ resv' = resv
         /\ \A k \in SlotKeys :
              /\ slots'[k].res = slots[k].res
              /\ slots[k].res # NULL => slots'[k].ex ]_vars

\* a disable has set the flag on a row that is reserved, and the reservation is on record
C31_Witness ==
  /\ last.op = "disable" /\ last.st = 200 /\ last.n >= 1
  /\ \E k \in SlotKeys :
       /\ k[3] \in last.times
       /\ slots[k].ex /\ slots[k].dis = 1
       /\ slots[k].res # NULL /\ resv[slots[k].res].ex
       /\ resv[slots[k].res].time = k[3]

\* the slot rows whose reservation pointer is the reservation id
PointingAt(id) == { k \in SlotKeys : slots[k].ex /\ slots[k].res = id }

\* C32: in every reachable state each reservation on record is bound to exactly one
\* slot: exactly one slot row points at it, that row's site, date and time are the
\* reservation's, and every non-null reservation pointer names a reservation on record.
C32_BoundToOneSlot ==
  /\ \A id \in Rids :
       resv[id].ex =>
         /\ Cardinality(PointingAt(id)) = 1
         /\ \A k \in PointingAt(id) :
              <<k[1], k[2], k[3]>> = <<resv[id].site, resv[id].date, resv[id].time>>
  /\ \A k \in SlotKeys :
       (slots[k].ex /\ slots[k].res # NULL) => resv[slots[k].res].ex

\* the slot carries an unexpired hold with this token
HoldsNow(slot, tok) ==
  \E k \in KeysOf(slot) :
    slots[k].ex /\ slots[k].tok = tok /\ slots[k].exp # NULL /\ slots[k].exp > now

\* C33: a reservation has just been placed on a slot by an admin reserve or by a
\* reassign into it while the slot carried an unexpired hold; the next request is a
\* confirm with that hold's token: it is answered Gone and creates no reservation.
C33_PlacedReservationSupersedesHold ==
  [][ ( /\ Request
        /\ last.op \in {"admin-reserve", "reassign"} /\ last.st = 200
        /\ last'.op = "confirm"
        /\ HoldsNow(last.slot, last'.tok) )
      => (last'.st = 410 /\ resv' = resv) ]_vars

\* the reservations on record for a slot
RecordsAt(R, slot) ==
  { id \in Rids : R[id].ex /\ <<R[id].site, R[id].date, R[id].time>> = slot }

\* C34: a confirm whose store statements interleave with an expiry sweep, a publish or
\* a cancel is answered either Created, and then exactly one reservation is on record
\* for the slot, the slot points at it and carries no hold, or Gone, and then it has
\* created no reservation.
C34_ConfirmEitherOr ==
  [][ (last' # last /\ last'.op = "confirm")
      => \/ /\ last'.st = 201
            /\ RecordsAt(resv', last'.slot) = {last'.rid}
            /\ \E k \in KeysOf(last'.slot) :
                 slots'[k].ex /\ slots'[k].res = last'.rid /\ slots'[k].tok = NULL
         \/ /\ last'.st = 410
            /\ resv' = resv ]_vars

\* a reservation on record for a slot whose row has a null reservation pointer
NullPointerUnder(id) ==
  \E k \in RowsAt(slots, resv[id].site, resv[id].date, resv[id].time) :
    slots[k].res = NULL

\* C35: the INSERT of the reservation and the UPDATE of the slot by a confirm take
\* effect as one unit: once no confirm is between its statements (it finished, or the
\* process stopped and it never will), no reservation is on record for a slot whose
\* reservation pointer is null.
C35_ConfirmWritesAtomic ==
  inflight = {} => \A id \in Rids : resv[id].ex => ~NullPointerUnder(id)

\* C36: a hold's expiry is the instant its token was granted plus 120 seconds for as
\* long as the hold is on the slot: a step that puts a token on a row sets the expiry
\* to now + 120, a step that keeps the token keeps the expiry, and no step, another hold
\* request of the slot included, replaces the token of an unexpired hold.
C36_HoldExpiryFixed ==
  [][ \A k \in SlotKeys :
        LET a == slots[k]
            b == slots'[k]
        IN /\ (b.ex /\ b.tok # NULL /\ b.tok # a.tok) => b.exp = now' + HoldTTL
           /\ (b.ex /\ b.tok # NULL /\ b.tok = a.tok) => b.exp = a.exp
           /\ (a.ex /\ a.tok # NULL /\ a.exp > now) => b.tok \in {a.tok, NULL} ]_vars

\* a hold was granted, time passed, and a second hold request of the same slot has been
\* refused: the slot carries the first token with the expiry it was granted with
C36_Witness ==
  /\ Len(trail) >= 1
  /\ Before(0).op = "hold" /\ Before(0).st = 200
  /\ last.op = "hold" /\ last.st = 409 /\ last.slot = Before(0).slot
  /\ now > Before(0).exp - HoldTTL /\ now < Before(0).exp
  /\ \E k \in KeysOf(last.slot) :
       slots[k].ex /\ slots[k].tok = Before(0).tok /\ slots[k].exp = Before(0).exp

\* C37: a hold token yields at most one reservation. A confirm repeated with the token
\* of the confirm just answered Created is answered Gone and creates nothing; a confirm
\* with the token of a hold that expired and was replaced by a newer hold of the same
\* slot is answered Gone, creates nothing and leaves the newer hold on the slot; a
\* confirm answered Created leaves its token on no row, and the only token a step puts
\* on a row is one that was never issued before.
C37_TokenSpentOnce ==
  [][ /\ ( /\ Request
           /\ last.op = "confirm" /\ last.st = 201
           /\ last'.op = "confirm" /\ last'.tok = last.tok )
        => (last'.st = 410 /\ resv' = resv)
      /\ ( /\ Request
           /\ trail # <<>> /\ Before(0).op = "hold" /\ Before(0).st = 200
           /\ last.op = "hold" /\ last.st = 200 /\ last.slot = Before(0).slot
           /\ last'.op = "confirm" /\ last'.tok = Before(0).tok
           /\ now < last.exp )
        => /\ last'.st = 410 /\ resv' = resv
           /\ \E k \in KeysOf(last.slot) :
                slots'[k].ex /\ slots'[k].tok = last.tok /\ slots'[k].exp = last.exp
      /\ (Request /\ last'.op = "confirm" /\ last'.st = 201)
        => \A k \in SlotKeys : slots'[k].tok # last'.tok
      /\ \A k \in SlotKeys :
           (slots'[k].ex /\ slots'[k].tok # NULL /\ slots'[k].tok # slots[k].tok)
             => (slots'[k].tok = nextTok /\ nextTok' = nextTok + 1) ]_vars

\* a hold expired and a newer hold of the same slot replaced it; the confirm with the
\* first token has been answered Gone, nothing is reserved and the newer hold is on
\* the slot, unexpired
C37_Witness ==
  /\ Len(trail) >= 2
  /\ Before(1).op = "hold" /\ Before(1).st = 200
  /\ Before(0).op = "hold" /\ Before(0).st = 200 /\ Before(0).slot = Before(1).slot
  /\ Before(0).tok # Before(1).tok
  /\ last.op = "confirm" /\ last.st = 410 /\ last.tok = Before(1).tok
  /\ \A r \in Rids : ~resv[r].ex
  /\ \E k \in KeysOf(Before(0).slot) :
       slots[k].ex /\ slots[k].tok = Before(0).tok /\ slots[k].exp > now

\* the times of a site/day for which a hold request served now would be granted
Holdable(S, site, date, t) ==
  { time \in Times : HoldStatus(expireHolds(S, t), site, date, time, t) = 200 }

\* C38: the open-slot listing and the hold handler agree at every instant: the listing
\* of a site/day returns a time if and only if a hold request of that site, date and
\* time served at the same instant would be granted.
C38_ListAgreesWithHold ==
  [][ (Request /\ last'.op = "list")
      => last'.times = Holdable(slots, last'.slot[1], last'.slot[2], now) ]_vars

\* C39: a confirm whose token is the unexpired hold of a slot that is disabled when the
\* confirm is served creates no reservation.
C39_NoConfirmOnDisabled ==
  [][ ( /\ Request
        /\ last'.op = "confirm"
        /\ \E k \in SlotKeys :
             /\ slots[k].ex /\ slots[k].dis # 0
             /\ slots[k].tok = last'.tok /\ slots[k].exp # NULL /\ slots[k].exp > now )
      => (last'.st # 201 /\ resv' = resv) ]_vars

\* the times of a preview's items, and those flagged disabled
ItemTimes(resp) == { resp.items[i][1] : i \in 1 .. Len(resp.items) }
ItemsDisabled(resp) ==
  { resp.items[i][1] : i \in { j \in 1 .. Len(resp.items) : resp.items[j][2] = 1 } }

\* C40: a body accepted by publish has been published on an empty day and then sent to
\* preview: the preview is answered with the interval publish answered, with as many
\* times as publish generated, with the disabled times publish computed, and the rows of
\* the day are the previewed times, each with the previewed flag.
C40_PreviewAgreesWithPublish ==
  ( /\ trail # <<>>
    /\ Before(0).op = "publish" /\ Before(0).st = 200
    /\ last.op = "preview" )
  => /\ last.st = 200
     /\ last.n = Before(0).interval
     /\ Len(last.items) = Before(0).n
     /\ ItemsDisabled(last) = Before(0).times
     /\ \A k \in SlotKeys :
          (k[1] = Before(0).slot[1] /\ k[2] = Before(0).slot[2] /\ k[4] = 0)
            => /\ slots[k].ex <=> k[3] \in ItemTimes(last)
               /\ slots[k].ex => (slots[k].dis = 1 <=> k[3] \in ItemsDisabled(last))

====
